---- MODULE Spec2Model ----
(***************************************************************************)
(* A model of the js-mini-engine front end: the Scanner (source text to    *)
(* tokens), the recursive-descent Parser (tokens to AST) and the           *)
(* SemanticAnalyzer (AST to a report of errors) with its Environment.      *)
(*                                                                         *)
(* Characters are one-character strings, a source text and a lexeme are    *)
(* sequences of characters, positions are 0-based as in the code (the      *)
(* element at position i of a sequence s is s[i + 1]).                     *)
(***************************************************************************)
EXTENDS Integers, Sequences, FiniteSets, TLC

VARIABLES
    scanner,        \* the Scanner object: #source, #current, #line, #column
    tokenList,      \* the local tokenList of Scanner.scanTokens
    scanPc,         \* where scanTokens is: "idle", "loop", "done", "error"
    scanError,      \* the message of the Error scanTokens raised, <<>> when none
    parser,         \* the Parser object: #tokens, #current
    statements,     \* the local statements of Parser.parse
    parsePc,        \* "idle", "ready", "loop", "done", "error", "exprDone", "exprError"
    parseResult,    \* what the parser call returned or raised
    program,        \* the Program handed to SemanticAnalyzer.analyze
    analyzer,       \* the SemanticAnalyzer object: environment, loopDepth, errors
    stmtIndex,      \* how many statements of program.body analyze's loop has done
    analyzePc,      \* "never", "idle", "loop", "returned", "caught" (by its catch)
    analysisResult, \* the AnalysisResult analyze returned
    analyzeCalls,   \* how many times analyze has been called on this analyzer
    interpreter,    \* the Interpreter object: environment, lastValue, and the
                    \* RuntimeEnvironment objects it has made (heap)
    ast,            \* the Program handed to Interpreter.execute
    execIndex,      \* how many statements of ast.body execute's loop has done
    executePc,      \* "never", "idle", "loop", "returned", "raised"
    executeResult,  \* what execute returned or raised
    executeCalls    \* how many times execute has been called on this interpreter

vars == <<scanner, tokenList, scanPc, scanError, parser, statements, parsePc,
          parseResult, program, analyzer, stmtIndex, analyzePc, analysisResult,
          analyzeCalls, interpreter, ast, execIndex, executePc, executeResult,
          executeCalls>>

scanVars == <<scanner, tokenList, scanPc, scanError>>
parseVars == <<parser, statements, parsePc, parseResult>>
analyzeVars ==
    <<program, analyzer, stmtIndex, analyzePc, analysisResult, analyzeCalls>>
executeVars ==
    <<interpreter, ast, execIndex, executePc, executeResult, executeCalls>>

(***************************************************************************)
(* Bounds of the model.                                                    *)
(***************************************************************************)
MaxSourceLen == 3

(***************************************************************************)
(* Characters.                                                             *)
(***************************************************************************)
NUL == "NUL"

Digits == {"0", "1", "2", "3", "4", "5", "6", "7", "8", "9"}

Letters ==
    {"a", "b", "c", "d", "e", "f", "g", "h", "i", "j", "k", "l", "m",
     "n", "o", "p", "q", "r", "s", "t", "u", "v", "w", "x", "y", "z",
     "A", "B", "C", "D", "E", "F", "G", "H", "I", "J", "K", "L", "M",
     "N", "O", "P", "Q", "R", "S", "T", "U", "V", "W", "X", "Y", "Z"}

Whitespace == {" ", "\t", "\r", "\n"}

(***************************************************************************)
(* The keyword table and lookupIdentifier.                                 *)
(***************************************************************************)
KEYWORDS ==
    (<<"l", "e", "t">> :> "LET") @@
    (<<"c", "o", "n", "s", "t">> :> "CONST") @@
    (<<"f", "u", "n", "c", "t", "i", "o", "n">> :> "FUNCTION") @@
    (<<"r", "e", "t", "u", "r", "n">> :> "RETURN") @@
    (<<"i", "f">> :> "IF") @@
    (<<"e", "l", "s", "e">> :> "ELSE") @@
    (<<"w", "h", "i", "l", "e">> :> "WHILE") @@
    (<<"f", "o", "r">> :> "FOR") @@
    (<<"b", "r", "e", "a", "k">> :> "BREAK") @@
    (<<"c", "o", "n", "t", "i", "n", "u", "e">> :> "CONTINUE") @@
    (<<"t", "r", "u", "e">> :> "TRUE") @@
    (<<"f", "a", "l", "s", "e">> :> "FALSE") @@
    (<<"n", "u", "l", "l">> :> "NULL") @@
    (<<"p", "r", "i", "n", "t">> :> "PRINT")

lookupIdentifier(identifier) ==
    IF identifier \in DOMAIN KEYWORDS THEN KEYWORDS[identifier] ELSE "IDENTIFIER"

(***************************************************************************)
(* Scanner.  An operator that moves the scanner returns the moved scanner  *)
(* (the record sc); one that also produces a value returns a record with   *)
(* the value and the scanner.                                              *)
(***************************************************************************)
isAtEnd(sc) == sc.current >= Len(sc.source)

peek(sc) == IF isAtEnd(sc) THEN NUL ELSE sc.source[sc.current + 1]

peekNext(sc) ==
    IF sc.current + 1 >= Len(sc.source) THEN NUL ELSE sc.source[sc.current + 2]

\* The character it returns is peek(sc) of the scanner before the move.
moveNextCharacter(sc) ==
    [sc EXCEPT !.current = @ + 1, !.column = @ + 1]

isDigit(char) == char \in Digits

isAlpha(char) == char \in Letters \/ char = "_"

isAlphaNumeric(char) == isAlpha(char) \/ isDigit(char)

RECURSIVE skipWhiteSpace(_)
skipWhiteSpace(sc) ==
    IF isAtEnd(sc) THEN sc
    ELSE LET char == peek(sc) IN
         IF char = " " \/ char = "\t" \/ char = "\r"
         THEN skipWhiteSpace(moveNextCharacter(sc))
         ELSE IF char = "\n"
         THEN skipWhiteSpace(
                  moveNextCharacter([sc EXCEPT !.line = @ + 1, !.column = 0]))
         ELSE sc

\* The loop `while (!isAtEnd() && isDigit(peek())) result += moveNextCharacter()`.
RECURSIVE scanDigits(_, _)
scanDigits(sc, result) ==
    IF ~isAtEnd(sc) /\ isDigit(peek(sc))
    THEN scanDigits(moveNextCharacter(sc), Append(result, peek(sc)))
    ELSE [result |-> result, sc |-> sc]

scanNumber(sc) ==
    LET whole == scanDigits(sc, <<>>) IN
    IF peek(whole.sc) = "." /\ isDigit(peekNext(whole.sc))
    THEN scanDigits(moveNextCharacter(whole.sc), Append(whole.result, "."))
    ELSE whole

\* The loop `while (!isAtEnd() && isAlphaNumeric(peek())) result += ...`.
RECURSIVE scanIdentifierRest(_, _)
scanIdentifierRest(sc, result) ==
    IF ~isAtEnd(sc) /\ isAlphaNumeric(peek(sc))
    THEN scanIdentifierRest(moveNextCharacter(sc), Append(result, peek(sc)))
    ELSE [result |-> result, sc |-> sc]

scanIdentifier(sc) ==
    IF isAlpha(peek(sc))
    THEN scanIdentifierRest(moveNextCharacter(sc), <<peek(sc)>>)
    ELSE scanIdentifierRest(sc, <<>>)

\* The loop `while (!isAtEnd() && peek() !== quote) result += ...`.
RECURSIVE scanStringBody(_, _, _)
scanStringBody(sc, quote, result) ==
    IF ~isAtEnd(sc) /\ peek(sc) # quote
    THEN scanStringBody(moveNextCharacter(sc), quote, Append(result, peek(sc)))
    ELSE [result |-> result, sc |-> sc]

scanString(sc) ==
    LET quote == peek(sc)
        body == scanStringBody(moveNextCharacter(sc), quote, <<>>)
    IN  IF isAtEnd(body.sc)
        THEN [ok |-> FALSE, error |-> <<"Unterminated string">>, sc |-> body.sc]
        ELSE [ok |-> TRUE, result |-> body.result,
              sc |-> moveNextCharacter(body.sc)]

createToken(sc, type, value) ==
    [type |-> type, value |-> value, line |-> sc.line, column |-> sc.column]

\* A one-character operator: consume it, make the token.
singleOperator(sc, type) ==
    LET moved == moveNextCharacter(sc) IN
    [ok |-> TRUE, token |-> createToken(moved, type, <<peek(sc)>>), sc |-> moved]

\* The cases of `=`, `!`, `<`, `>`: the operator alone, or followed by `=`.
compoundOperator(sc, single, compound) ==
    LET moved == moveNextCharacter(sc) IN
    IF peek(moved) = "="
    THEN LET moved2 == moveNextCharacter(moved) IN
         [ok |-> TRUE, token |-> createToken(moved2, compound, <<peek(sc), "=">>),
          sc |-> moved2]
    ELSE [ok |-> TRUE, token |-> createToken(moved, single, <<peek(sc)>>),
          sc |-> moved]

\* The cases of `&` and `|`: only the doubled character is an operator.
doubledOperator(sc, type) ==
    LET moved == moveNextCharacter(sc) IN
    IF peek(moved) = peek(sc)
    THEN LET moved2 == moveNextCharacter(moved) IN
         [ok |-> TRUE, token |-> createToken(moved2, type, <<peek(sc), peek(sc)>>),
          sc |-> moved2]
    ELSE [ok |-> FALSE, error |-> <<"Unexpected character: ", peek(sc)>>,
          sc |-> moved]

\* A scanOperator that makes a token of an unknown character and leaves
\* the character where it is.
scanOperatorStaying(sc) ==
    LET char == peek(sc) IN
    IF char \in {"+", "-", "*", "/", "%", "=", "!", "<", ">", "&", "|"}
    THEN singleOperator(sc, "PLUS")
    ELSE [ok |-> TRUE, token |-> createToken(sc, "UNKNOWN", <<char>>), sc |-> sc]

scanOperator(sc) ==
    LET char == peek(sc) IN
    CASE char = "+" -> singleOperator(sc, "PLUS")
      [] char = "-" -> singleOperator(sc, "MINUS")
      [] char = "*" -> singleOperator(sc, "STAR")
      [] char = "/" -> singleOperator(sc, "SLASH")
      [] char = "%" -> singleOperator(sc, "PERCENT")
      [] char = "=" -> compoundOperator(sc, "EQUAL", "EQUAL_EQUAL")
      [] char = "!" -> compoundOperator(sc, "BANG", "BANG_EQUAL")
      [] char = "<" -> compoundOperator(sc, "LESS", "LESS_EQUAL")
      [] char = ">" -> compoundOperator(sc, "GREATER", "GREATER_EQUAL")
      [] char = "&" -> doubledOperator(sc, "AND")
      [] char = "|" -> doubledOperator(sc, "OR")
      [] OTHER -> [ok |-> FALSE, error |-> <<"Unknown operator: ", char>>,
                   sc |-> sc]

\* The if-chain of the body of scanTokens' loop, after the white space:
\* scans one token at a non-space character.
scanToken(sc) ==
    LET char == peek(sc) IN
    IF isDigit(char)
    THEN LET value == scanNumber(sc) IN
         [ok |-> TRUE, token |-> createToken(value.sc, "NUMBER", value.result),
          sc |-> value.sc]
    ELSE IF isAlpha(char)
    THEN LET identifier == scanIdentifier(sc) IN
         [ok |-> TRUE,
          token |-> createToken(identifier.sc,
                                lookupIdentifier(identifier.result),
                                identifier.result),
          sc |-> identifier.sc]
    ELSE IF char = "\"" \/ char = "'"
    THEN LET string == scanString(sc) IN
         IF string.ok
         THEN [ok |-> TRUE,
               token |-> createToken(string.sc, "STRING", string.result),
               sc |-> string.sc]
         ELSE string
    ELSE IF char = "("
    THEN singleOperator(sc, "LPAREN")
    ELSE IF char = ")"
    THEN singleOperator(sc, "RPAREN")
    ELSE scanOperator(sc)

\* A scanTokens that returns the list without the closing sentinel.
scanTokensReturnNoSentinel(sc, list) == list

\* The end of scanTokens: push the EOF token and return the list.
scanTokensReturn(sc, list) == Append(list, createToken(sc, "EOF", <<>>))

(***************************************************************************)
(* AST builders.  NULL stands for the null of an absent child.  A literal  *)
(* value carries its JavaScript type: [t |-> "number", v |-> ...].         *)
(***************************************************************************)
NULL == [type |-> "null"]

createLiteral(value, raw) ==
    [type |-> "LiteralExpression", value |-> value, raw |-> raw]

createIdentifier(name) == [type |-> "Identifier", name |-> name]

createBinaryExpression(left, operator, right) ==
    [type |-> "BinaryExpression", left |-> left, operator |-> operator,
     right |-> right]

createUnaryExpression(operator, argument) ==
    [type |-> "UnaryExpression", operator |-> operator, argument |-> argument]

createLogicalExpression(left, operator, right) ==
    [type |-> "LogicalExpression", left |-> left, operator |-> operator,
     right |-> right]

createAssignmentExpression(left, operator, right) ==
    [type |-> "AssignmentExpression", left |-> left, operator |-> operator,
     right |-> right]

createCallExpression(callee, args) ==
    [type |-> "CallExpression", callee |-> callee, arguments |-> args]

createGroupingExpression(expression) ==
    [type |-> "GroupingExpression", expression |-> expression]

createExpressionStatement(expression) ==
    [type |-> "ExpressionStatement", expression |-> expression]

createVariableDeclaration(kind, identifier, initializer) ==
    [type |-> "VariableDeclaration", kind |-> kind, identifier |-> identifier,
     initializer |-> initializer]

createBlockStatement(body) == [type |-> "BlockStatement", body |-> body]

createIfStatement(condition, consequent, alternate) ==
    [type |-> "IfStatement", condition |-> condition,
     consequent |-> consequent, alternate |-> alternate]

createWhileStatement(condition, body) ==
    [type |-> "WhileStatement", condition |-> condition, body |-> body]

createForStatement(init, condition, update, body) ==
    [type |-> "ForStatement", init |-> init, condition |-> condition,
     update |-> update, body |-> body]

createFunctionDeclaration(name, parameters, body) ==
    [type |-> "FunctionDeclaration", name |-> name, parameters |-> parameters,
     body |-> body]

createReturnStatement(argument) ==
    [type |-> "ReturnStatement", argument |-> argument]

createBreakStatement == [type |-> "BreakStatement"]

createContinueStatement == [type |-> "ContinueStatement"]

createProgram(body) == [type |-> "Program", body |-> body]

(***************************************************************************)
(* Number(lexeme) for the lexemes scanNumber produces: digits, optionally  *)
(* a dot and more digits.  The value is the whole part and the fraction    *)
(* digits without trailing zeros, so that "1.50" and "1.5" are one value.  *)
(***************************************************************************)
DigitValue(char) ==
    CASE char = "0" -> 0 [] char = "1" -> 1 [] char = "2" -> 2
      [] char = "3" -> 3 [] char = "4" -> 4 [] char = "5" -> 5
      [] char = "6" -> 6 [] char = "7" -> 7 [] char = "8" -> 8
      [] char = "9" -> 9

RECURSIVE DigitsValue(_)
DigitsValue(digits) ==
    IF digits = <<>> THEN 0
    ELSE 10 * DigitsValue(SubSeq(digits, 1, Len(digits) - 1))
         + DigitValue(digits[Len(digits)])

RECURSIVE TrimZeros(_)
TrimZeros(digits) ==
    IF digits # <<>> /\ digits[Len(digits)] = "0"
    THEN TrimZeros(SubSeq(digits, 1, Len(digits) - 1))
    ELSE digits

DotAt(lexeme) ==
    IF \E i \in 1..Len(lexeme) : lexeme[i] = "."
    THEN CHOOSE i \in 1..Len(lexeme) : lexeme[i] = "."
    ELSE Len(lexeme) + 1

Number(lexeme) ==
    [whole |-> DigitsValue(SubSeq(lexeme, 1, DotAt(lexeme) - 1)),
     frac |-> TrimZeros(SubSeq(lexeme, DotAt(lexeme) + 1, Len(lexeme)))]

(***************************************************************************)
(* Parser.  p is the parser object [tokens, current].  A parsing operator  *)
(* returns [ok |-> TRUE, node, p] with the parser after it, or             *)
(* [ok |-> FALSE, error, p] when it raised.                                *)
(***************************************************************************)
parserPeek(p) == p.tokens[p.current + 1]

parserIsAtEnd(p) == parserPeek(p).type = "EOF"

previous(p) == p.tokens[p.current]

\* Returns previous() of the parser it returns.
advance(p) ==
    IF ~parserIsAtEnd(p) THEN [p EXCEPT !.current = @ + 1] ELSE p

check(p, type) ==
    IF parserIsAtEnd(p) THEN FALSE ELSE parserPeek(p).type = type

match(p, types) ==
    IF \E type \in types : check(p, type)
    THEN [matched |-> TRUE, p |-> advance(p)]
    ELSE [matched |-> FALSE, p |-> p]

error(token, message) ==
    LET tokenInfo == IF token.type = "EOF"
                     THEN <<"end of file">>
                     ELSE <<"'">> \o token.value \o <<"'">>
    IN  <<"Line ", token.line, ":", token.column, " - Error at ", tokenInfo,
          ": ", message>>

\* A consume that takes the offending token before it raises.
consumeAdvancing(p, type, message) ==
    IF check(p, type)
    THEN [ok |-> TRUE, token |-> previous(advance(p)), p |-> advance(p)]
    ELSE [ok |-> FALSE, error |-> error(parserPeek(p), message), p |-> advance(p)]

consume(p, type, message) ==
    IF check(p, type)
    THEN [ok |-> TRUE, token |-> previous(advance(p)), p |-> advance(p)]
    ELSE [ok |-> FALSE, error |-> error(parserPeek(p), message), p |-> p]

Parsed(node, p) == [ok |-> TRUE, node |-> node, p |-> p]

Raised(err, p) == [ok |-> FALSE, error |-> err, p |-> p]

\* Sequencing with exceptions: when r raised, the raise goes on up; else
\* the rest F runs on what r returned.
Then(r, F(_)) == IF r.ok THEN F(r) ELSE r

RECURSIVE parseExpression(_), parseAssignment(_)
RECURSIVE parseLogicalOr(_), parseLogicalOrLoop(_, _, _)
RECURSIVE parseLogicalAnd(_), parseLogicalAndLoop(_, _, _)
RECURSIVE parseEquality(_), parseEqualityLoop(_, _, _)
RECURSIVE parseComparison(_), parseComparisonLoop(_, _, _)
RECURSIVE parseTerm(_), parseTermLoop(_, _, _)
RECURSIVE parseFactor(_), parseFactorLoop(_, _, _)
RECURSIVE parseUnary(_), parsePrimary(_)

parseExpression(p) == parseAssignment(p)

\* A parseAssignment that validates the target before it parses the value.
parseAssignmentEager(p) ==
    Then(parseLogicalOr(p), LAMBDA expr :
        IF match(expr.p, {"EQUAL"}).matched
        THEN IF expr.node.type = "Identifier"
             THEN Then(parseAssignment(match(expr.p, {"EQUAL"}).p), LAMBDA value :
                      Parsed(createAssignmentExpression(
                                 expr.node, parserPeek(expr.p).type, value.node),
                             value.p))
             ELSE Raised(error(parserPeek(expr.p), "Invalid assignment target"),
                         match(expr.p, {"EQUAL"}).p)
        ELSE expr)

\* The operator a match() consumed, previous().type, is parserPeek(p).type of
\* the parser p before the match.
parseAssignment(p) ==
    Then(parseLogicalOr(p), LAMBDA expr :
        IF match(expr.p, {"EQUAL"}).matched
        THEN Then(parseAssignment(match(expr.p, {"EQUAL"}).p), LAMBDA value :
                 IF expr.node.type = "Identifier"
                 THEN Parsed(createAssignmentExpression(
                                 expr.node, parserPeek(expr.p).type, value.node),
                             value.p)
                 ELSE Raised(error(previous(value.p), "Invalid assignment target"),
                             value.p))
        ELSE expr)

\* A left-associative level, `expr = next(); while (match(ops)) { operator =
\* previous().type; right = next(); expr = create(expr, operator, right) }`, is
\* one operator that parses an operand and folds it into what is on its left
\* (NULL before the first operand), then goes round again on a match.
\* parseLogicalOr: operands parseLogicalAnd(), operator ||.
parseLogicalOrLoop(left, operator, p) ==
    Then(parseLogicalAnd(p), LAMBDA right :
    Then(Parsed(IF left = NULL THEN right.node
                ELSE createLogicalExpression(left, operator, right.node), right.p),
         LAMBDA expr :
             IF match(expr.p, {"OR"}).matched
             THEN parseLogicalOrLoop(expr.node, parserPeek(expr.p).type,
                      match(expr.p, {"OR"}).p)
             ELSE expr))

parseLogicalOr(p) == parseLogicalOrLoop(NULL, "", p)

\* parseLogicalAnd: operands parseEquality(), operator &&.
parseLogicalAndLoop(left, operator, p) ==
    Then(parseEquality(p), LAMBDA right :
    Then(Parsed(IF left = NULL THEN right.node
                ELSE createLogicalExpression(left, operator, right.node), right.p),
         LAMBDA expr :
             IF match(expr.p, {"AND"}).matched
             THEN parseLogicalAndLoop(expr.node, parserPeek(expr.p).type,
                      match(expr.p, {"AND"}).p)
             ELSE expr))

parseLogicalAnd(p) == parseLogicalAndLoop(NULL, "", p)

\* parseEquality: operands parseComparison(), operators == and !=.
parseEqualityLoop(left, operator, p) ==
    Then(parseComparison(p), LAMBDA right :
    Then(Parsed(IF left = NULL THEN right.node
                ELSE createBinaryExpression(left, operator, right.node), right.p),
         LAMBDA expr :
             IF match(expr.p, {"EQUAL_EQUAL", "BANG_EQUAL"}).matched
             THEN parseEqualityLoop(expr.node, parserPeek(expr.p).type,
                      match(expr.p, {"EQUAL_EQUAL", "BANG_EQUAL"}).p)
             ELSE expr))

parseEquality(p) == parseEqualityLoop(NULL, "", p)

\* parseComparison: operands parseTerm(), operators < <= > >=.
parseComparisonLoop(left, operator, p) ==
    Then(parseTerm(p), LAMBDA right :
    Then(Parsed(IF left = NULL THEN right.node
                ELSE createBinaryExpression(left, operator, right.node), right.p),
         LAMBDA expr :
             IF match(expr.p, {"LESS", "LESS_EQUAL", "GREATER", "GREATER_EQUAL"}).matched
             THEN parseComparisonLoop(expr.node, parserPeek(expr.p).type,
                      match(expr.p, {"LESS", "LESS_EQUAL", "GREATER", "GREATER_EQUAL"}).p)
             ELSE expr))

parseComparison(p) == parseComparisonLoop(NULL, "", p)

\* A parseTerm that takes * / % on its own level, with + and -.
parseTermLoopFlat(left, operator, p) ==
    Then(parseUnary(p), LAMBDA right :
    Then(Parsed(IF left = NULL THEN right.node
                ELSE createBinaryExpression(left, operator, right.node), right.p),
         LAMBDA expr :
             IF match(expr.p, {"PLUS", "MINUS", "STAR", "SLASH", "PERCENT"}).matched
             THEN parseTermLoop(expr.node, parserPeek(expr.p).type,
                      match(expr.p, {"PLUS", "MINUS", "STAR", "SLASH", "PERCENT"}).p)
             ELSE expr))

\* parseTerm: operands parseFactor(), operators + and -.
parseTermLoop(left, operator, p) ==
    Then(parseFactor(p), LAMBDA right :
    Then(Parsed(IF left = NULL THEN right.node
                ELSE createBinaryExpression(left, operator, right.node), right.p),
         LAMBDA expr :
             IF match(expr.p, {"PLUS", "MINUS"}).matched
             THEN parseTermLoop(expr.node, parserPeek(expr.p).type,
                      match(expr.p, {"PLUS", "MINUS"}).p)
             ELSE expr))

parseTerm(p) == parseTermLoop(NULL, "", p)

\* A parseFactor that recurses on its right operand instead of folding.
parseFactorLoopRight(left, operator, p) ==
    Then(parseUnary(p), LAMBDA operand :
        IF match(operand.p, {"STAR", "SLASH", "PERCENT"}).matched
        THEN Then(parseFactorLoop(NULL, "", match(operand.p, {"STAR", "SLASH", "PERCENT"}).p),
                  LAMBDA rest :
                      Parsed(createBinaryExpression(operand.node,
                                 parserPeek(operand.p).type, rest.node), rest.p))
        ELSE operand)

\* parseFactor: operands parseUnary(), operators * / %.
parseFactorLoop(left, operator, p) ==
    Then(parseUnary(p), LAMBDA right :
    Then(Parsed(IF left = NULL THEN right.node
                ELSE createBinaryExpression(left, operator, right.node), right.p),
         LAMBDA expr :
             IF match(expr.p, {"STAR", "SLASH", "PERCENT"}).matched
             THEN parseFactorLoop(expr.node, parserPeek(expr.p).type,
                      match(expr.p, {"STAR", "SLASH", "PERCENT"}).p)
             ELSE expr))

parseFactor(p) == parseFactorLoop(NULL, "", p)

parseUnary(p) ==
    IF match(p, {"BANG", "MINUS"}).matched
    THEN Then(parseUnary(match(p, {"BANG", "MINUS"}).p), LAMBDA right :
             Parsed(createUnaryExpression(parserPeek(p).type, right.node),
                    right.p))
    ELSE parsePrimary(p)

\* The token a successful match() consumed is parserPeek(p).
parsePrimary(p) ==
    IF match(p, {"NUMBER"}).matched
    THEN Parsed(createLiteral([t |-> "number", v |-> Number(parserPeek(p).value)],
                              parserPeek(p).value), advance(p))
    ELSE IF match(p, {"STRING"}).matched
    THEN Parsed(createLiteral([t |-> "string", v |-> parserPeek(p).value],
                              <<"\"">> \o parserPeek(p).value \o <<"\"">>),
                advance(p))
    ELSE IF match(p, {"TRUE"}).matched
    THEN Parsed(createLiteral([t |-> "boolean", v |-> TRUE],
                              <<"t", "r", "u", "e">>), advance(p))
    ELSE IF match(p, {"FALSE"}).matched
    THEN Parsed(createLiteral([t |-> "boolean", v |-> FALSE],
                              <<"f", "a", "l", "s", "e">>), advance(p))
    ELSE IF match(p, {"NULL"}).matched
    THEN Parsed(createLiteral([t |-> "null"], <<"n", "u", "l", "l">>),
                advance(p))
    ELSE IF match(p, {"IDENTIFIER"}).matched
    THEN Parsed(createIdentifier(parserPeek(p).value), advance(p))
    ELSE IF match(p, {"LPAREN"}).matched
    THEN Then(parseExpression(match(p, {"LPAREN"}).p), LAMBDA expr :
         Then(consume(expr.p, "RPAREN", "Expected ')' after expression"),
              LAMBDA closing :
                  Parsed(createGroupingExpression(expr.node), closing.p)))
    ELSE Raised(error(parserPeek(p), "Expected expression"), p)

RECURSIVE parseStatement(_), parseBlockStatement(_), parseBlockBody(_, _)
RECURSIVE parseIfStatement(_), parseWhileStatement(_), parseForStatement(_)

parseExpressionStatement(p) ==
    Then(parseExpression(p), LAMBDA expr :
    Then(consume(expr.p, "SEMICOLON", "Expected ';' after expression"),
         LAMBDA semi : Parsed(createExpressionStatement(expr.node), semi.p)))

\* Called after match(LET, CONST): previous() is the keyword.
parseVariableDeclaration(p) ==
    Then(consume(p, "IDENTIFIER", "Expected variable name"), LAMBDA name :
    Then(IF match(name.p, {"EQUAL"}).matched
         THEN parseExpression(match(name.p, {"EQUAL"}).p)
         ELSE Parsed(NULL, name.p),
         LAMBDA initializer :
             IF previous(p).type # "LET" /\ initializer.node = NULL
             THEN Raised(error(previous(initializer.p),
                               "const declaration must have an initializer"),
                         initializer.p)
             ELSE Then(consume(initializer.p, "SEMICOLON",
                               "Expected ';' after variable declaration"),
                       LAMBDA semi :
                           Parsed(createVariableDeclaration(
                                      IF previous(p).type = "LET" THEN "let"
                                      ELSE "const",
                                      createIdentifier(name.token.value),
                                      initializer.node),
                                  semi.p))))

parseReturnStatement(p) ==
    Then(IF ~check(p, "SEMICOLON") THEN parseExpression(p) ELSE Parsed(NULL, p),
         LAMBDA value :
    Then(consume(value.p, "SEMICOLON", "Expected ';' after return value"),
         LAMBDA semi : Parsed(createReturnStatement(value.node), semi.p)))

parseBreakStatement(p) ==
    Then(consume(p, "SEMICOLON", "Expected ';' after 'break'"),
         LAMBDA semi : Parsed(createBreakStatement, semi.p))

parseContinueStatement(p) ==
    Then(consume(p, "SEMICOLON", "Expected ';' after 'continue'"),
         LAMBDA semi : Parsed(createContinueStatement, semi.p))

parseStatement(p) ==
    IF match(p, {"LET", "CONST"}).matched
    THEN parseVariableDeclaration(match(p, {"LET", "CONST"}).p)
    ELSE IF match(p, {"IF"}).matched
    THEN parseIfStatement(match(p, {"IF"}).p)
    ELSE IF match(p, {"WHILE"}).matched
    THEN parseWhileStatement(match(p, {"WHILE"}).p)
    ELSE IF match(p, {"FOR"}).matched
    THEN parseForStatement(match(p, {"FOR"}).p)
    ELSE IF match(p, {"RETURN"}).matched
    THEN parseReturnStatement(match(p, {"RETURN"}).p)
    ELSE IF match(p, {"BREAK"}).matched
    THEN parseBreakStatement(match(p, {"BREAK"}).p)
    ELSE IF match(p, {"CONTINUE"}).matched
    THEN parseContinueStatement(match(p, {"CONTINUE"}).p)
    ELSE IF check(p, "LBRACE") THEN parseBlockStatement(p)
    ELSE parseExpressionStatement(p)

parseIfStatement(p) ==
    Then(consume(p, "LPAREN", "Expected '(' after 'if'"), LAMBDA open :
    Then(parseExpression(open.p), LAMBDA condition :
    Then(consume(condition.p, "RPAREN", "Expected ')' after condition"),
         LAMBDA close :
    Then(parseStatement(close.p), LAMBDA consequent :
        IF match(consequent.p, {"ELSE"}).matched
        THEN Then(parseStatement(match(consequent.p, {"ELSE"}).p),
                  LAMBDA alternate :
                      Parsed(createIfStatement(condition.node, consequent.node,
                                               alternate.node), alternate.p))
        ELSE Parsed(createIfStatement(condition.node, consequent.node, NULL),
                    consequent.p)))))

parseWhileStatement(p) ==
    Then(consume(p, "LPAREN", "Expected '(' after 'while'"), LAMBDA open :
    Then(parseExpression(open.p), LAMBDA condition :
    Then(consume(condition.p, "RPAREN", "Expected ')' after condition"),
         LAMBDA close :
    Then(parseStatement(close.p), LAMBDA body :
        Parsed(createWhileStatement(condition.node, body.node), body.p)))))

parseForStatement(p) ==
    Then(consume(p, "LPAREN", "Expected '(' after 'for'"), LAMBDA open :
    Then(IF match(open.p, {"SEMICOLON"}).matched
         THEN Parsed(NULL, match(open.p, {"SEMICOLON"}).p)
         ELSE IF match(open.p, {"LET", "CONST"}).matched
         THEN parseVariableDeclaration(match(open.p, {"LET", "CONST"}).p)
         ELSE parseExpressionStatement(open.p),
         LAMBDA init :
    Then(IF ~check(init.p, "SEMICOLON") THEN parseExpression(init.p)
         ELSE Parsed(NULL, init.p),
         LAMBDA condition :
    Then(consume(condition.p, "SEMICOLON", "Expected ';' after loop condition"),
         LAMBDA semi :
    Then(IF ~check(semi.p, "RPAREN") THEN parseExpression(semi.p)
         ELSE Parsed(NULL, semi.p),
         LAMBDA update :
    Then(consume(update.p, "RPAREN", "Expected ')' after for clauses"),
         LAMBDA close :
    Then(parseStatement(close.p), LAMBDA body :
        Parsed(createForStatement(init.node, condition.node, update.node,
                                  body.node), body.p))))))))

\* while (!check(RBRACE) && !isAtEnd()) statements.push(parseStatement())
parseBlockBody(stmts, p) ==
    IF ~check(p, "RBRACE") /\ ~parserIsAtEnd(p)
    THEN Then(parseStatement(p), LAMBDA statement :
             parseBlockBody(Append(stmts, statement.node), statement.p))
    ELSE Parsed(stmts, p)

parseBlockStatement(p) ==
    Then(consume(p, "LBRACE", "Expected '{'"), LAMBDA open :
    Then(parseBlockBody(<<>>, open.p), LAMBDA body :
    Then(consume(body.p, "RBRACE", "Expected '}' after block"), LAMBDA close :
        Parsed(createBlockStatement(body.node), close.p))))

(***************************************************************************)
(* Types (semantic/types.ts).  A check that can raise returns              *)
(* [ok |-> TRUE, type] or [ok |-> FALSE, error].  A message is the tuple   *)
(* of the pieces of its template.                                          *)
(***************************************************************************)
inferLiteralType(expr) ==
    IF expr.value.t \in {"number", "string", "boolean", "null"}
    THEN expr.value.t
    ELSE "any"

getOperatorSymbol(operator) ==
    CASE operator = "PLUS" -> "+"
      [] operator = "MINUS" -> "-"
      [] operator = "STAR" -> "*"
      [] operator = "SLASH" -> "/"
      [] operator = "PERCENT" -> "%"
      [] operator = "LESS" -> "<"
      [] operator = "LESS_EQUAL" -> "<="
      [] operator = "GREATER" -> ">"
      [] operator = "GREATER_EQUAL" -> ">="
      [] operator = "EQUAL_EQUAL" -> "=="
      [] operator = "BANG_EQUAL" -> "!="
      [] operator = "BANG" -> "!"
      [] operator = "AND" -> "&&"
      [] operator = "OR" -> "||"
      [] OTHER -> operator

\* A check in which `any` on one side does not make arithmetic pass.
checkBinaryOperationStrict(left, operator, right) ==
    IF operator \in {"PLUS", "MINUS", "STAR", "SLASH", "PERCENT"}
    THEN IF operator = "PLUS" /\ (left = "string" \/ right = "string")
         THEN [ok |-> TRUE, type |-> "string"]
         ELSE IF left = "number" /\ right = "number"
         THEN [ok |-> TRUE, type |-> "number"]
         ELSE IF left = "any" /\ right = "any"
         THEN [ok |-> TRUE, type |-> "any"]
         ELSE [ok |-> FALSE,
               error |-> <<"Type error: Cannot perform ", getOperatorSymbol(operator),
                           " operation on ", left, " and ", right>>]
    ELSE IF operator \in {"LESS", "LESS_EQUAL", "GREATER", "GREATER_EQUAL"}
    THEN IF (left = "number" /\ right = "number")
               \/ (left = "string" /\ right = "string")
               \/ left = "any" \/ right = "any"
         THEN [ok |-> TRUE, type |-> "boolean"]
         ELSE [ok |-> FALSE,
               error |-> <<"Type error: Cannot compare ", left, " and ", right,
                           " with ", getOperatorSymbol(operator)>>]
    ELSE [ok |-> TRUE, type |-> "boolean"]

checkBinaryOperation(left, operator, right) ==
    IF operator \in {"PLUS", "MINUS", "STAR", "SLASH", "PERCENT"}
    THEN IF operator = "PLUS" /\ (left = "string" \/ right = "string")
         THEN [ok |-> TRUE, type |-> "string"]
         ELSE IF left = "number" /\ right = "number"
         THEN [ok |-> TRUE, type |-> "number"]
         ELSE IF left = "any" \/ right = "any"
         THEN [ok |-> TRUE, type |-> "any"]
         ELSE [ok |-> FALSE,
               error |-> <<"Type error: Cannot perform ", getOperatorSymbol(operator),
                           " operation on ", left, " and ", right>>]
    ELSE IF operator \in {"LESS", "LESS_EQUAL", "GREATER", "GREATER_EQUAL"}
    THEN IF left = "number" /\ right = "number"
         THEN [ok |-> TRUE, type |-> "boolean"]
         ELSE IF left = "string" /\ right = "string"
         THEN [ok |-> TRUE, type |-> "boolean"]
         ELSE IF left = "any" \/ right = "any"
         THEN [ok |-> TRUE, type |-> "boolean"]
         ELSE [ok |-> FALSE,
               error |-> <<"Type error: Cannot compare ", left, " and ", right,
                           " with ", getOperatorSymbol(operator)>>]
    ELSE IF operator \in {"EQUAL_EQUAL", "BANG_EQUAL"}
    THEN [ok |-> TRUE, type |-> "boolean"]
    ELSE [ok |-> FALSE, error |-> <<"Unknown binary operator: ", operator>>]

checkUnaryOperation(operator, operand) ==
    IF operator = "BANG"
    THEN [ok |-> TRUE, type |-> "boolean"]
    ELSE IF operator = "MINUS"
    THEN IF operand = "number"
         THEN [ok |-> TRUE, type |-> "number"]
         ELSE IF operand = "any"
         THEN [ok |-> TRUE, type |-> "any"]
         ELSE [ok |-> FALSE, error |-> <<"Type error: Cannot negate ", operand>>]
    ELSE [ok |-> FALSE, error |-> <<"Unknown unary operator: ", operator>>]

checkLogicalOperation(left, operator, right) ==
    IF operator \in {"AND", "OR"}
    THEN [ok |-> TRUE, type |-> "any"]
    ELSE [ok |-> FALSE, error |-> <<"Unknown logical operator: ", operator>>]

areTypesCompatible(target, source) ==
    \/ target = source
    \/ target = "any" \/ source = "any"
    \/ target = "undefined"

(***************************************************************************)
(* Environment.  An environment is the record [symbols, parent]: symbols a *)
(* function from the names defined in this scope to their SymbolInfo,      *)
(* parent the enclosing environment or NULL.  Only the analyzer's current  *)
(* environment is ever written to and a child is dropped before its parent *)
(* is current again, so the parent held in a child is the parent itself.   *)
(***************************************************************************)
UNDEFINED == [type |-> "undefined"]

NoSymbols == [name \in {} |-> UNDEFINED]

Environment(parent) == [symbols |-> NoSymbols, parent |-> parent]

SymbolInfo(kind, type, initialized) ==
    [kind |-> kind, type |-> type, initialized |-> initialized, line |-> 0,
     column |-> 0]

\* [ok |-> TRUE, env] with the environment after symbols.set, or the raise.
define(env, name, info) ==
    IF name \in DOMAIN env.symbols
    THEN [ok |-> FALSE,
          error |-> <<"Variable '", name, "' already declared in this scope at line ",
                      env.symbols[name].line, ":", env.symbols[name].column>>]
    ELSE [ok |-> TRUE,
          env |-> [env EXCEPT !.symbols =
                      [n \in DOMAIN @ \cup {name} |->
                          IF n = name THEN info ELSE @[n]]]]

RECURSIVE lookup(_, _)
lookup(env, name) ==
    IF name \in DOMAIN env.symbols THEN env.symbols[name]
    ELSE IF env.parent # NULL THEN lookup(env.parent, name)
    ELSE UNDEFINED

exists(env, name) == lookup(env, name) # UNDEFINED

\* An assign that does not look at the kind of the symbol.
assignUnchecked(env, name) == [ok |-> TRUE, info |-> lookup(env, name)]

\* [ok |-> TRUE, info] with the symbol or UNDEFINED, or the raise.
RECURSIVE assign(_, _)
assign(env, name) ==
    IF name \in DOMAIN env.symbols
    THEN IF env.symbols[name].kind = "const"
         THEN [ok |-> FALSE,
               error |-> <<"Cannot assign to const variable '", name,
                           "' (declared at line ", env.symbols[name].line, ":",
                           env.symbols[name].column, ")">>]
         ELSE [ok |-> TRUE, info |-> env.symbols[name]]
    ELSE IF env.parent # NULL THEN assign(env.parent, name)
    ELSE [ok |-> TRUE, info |-> UNDEFINED]

createChild(env) == Environment(env)

isGlobal(env) == env.parent = NULL

(***************************************************************************)
(* SemanticAnalyzer.  a is the analyzer object [environment, loopDepth,    *)
(* errors].  A statement analysis returns [ok |-> TRUE, a]; an expression  *)
(* analysis [ok |-> TRUE, type, a]; one that raised [ok |-> FALSE, error,  *)
(* a], with a as the finally blocks passed on the way left it.             *)
(***************************************************************************)
NewSemanticAnalyzer ==
    [environment |-> Environment(NULL), loopDepth |-> 0, errors |-> <<>>]

Done(a) == [ok |-> TRUE, a |-> a]

Typed(type, a) == [ok |-> TRUE, type |-> type, a |-> a]

Thrown(err, a) == [ok |-> FALSE, error |-> err, a |-> a]

\* this.errors.push(message)
pushError(a, message) == [a EXCEPT !.errors = Append(@, message)]

\* `try { return check(...) } catch (error) { errors.push(error.message);
\* return 'any' }`
checkedType(checked, a) ==
    IF checked.ok THEN Typed(checked.type, a)
    ELSE Typed("any", pushError(a, checked.error))

\* `try { environment.define(name, info) } catch (error) { errors.push(...) }`
defineOrReport(a, name, info) ==
    IF define(a.environment, name, info).ok
    THEN [a EXCEPT !.environment = define(a.environment, name, info).env]
    ELSE pushError(a, define(a.environment, name, info).error)

\* `finally { this.environment = previousEnv }`
finallyEnvironment(r, previousEnv) == [r EXCEPT !.a.environment = previousEnv]

\* `finally { this.loopDepth-- }`
finallyLoopDepth(r) == [r EXCEPT !.a.loopDepth = @ - 1]

RECURSIVE analyzeStatement(_, _), analyzeStatements(_, _, _)
RECURSIVE analyzeExpression(_, _), analyzeArguments(_, _, _)
RECURSIVE analyzeParameters(_, _, _)

analyzeLiteral(expr, a) == Typed(inferLiteralType(expr), a)

analyzeIdentifier(expr, a) ==
    IF lookup(a.environment, expr.name) = UNDEFINED
    THEN Typed("any", pushError(a, <<"Variable '", expr.name, "' is not defined">>))
    ELSE Typed(lookup(a.environment, expr.name).type, a)

analyzeBinaryExpression(expr, a) ==
    Then(analyzeExpression(expr.left, a), LAMBDA left :
    Then(analyzeExpression(expr.right, left.a), LAMBDA right :
        checkedType(checkBinaryOperation(left.type, expr.operator, right.type),
                    right.a)))

analyzeUnaryExpression(expr, a) ==
    Then(analyzeExpression(expr.argument, a), LAMBDA operand :
        checkedType(checkUnaryOperation(expr.operator, operand.type), operand.a))

analyzeLogicalExpression(expr, a) ==
    Then(analyzeExpression(expr.left, a), LAMBDA left :
    Then(analyzeExpression(expr.right, left.a), LAMBDA right :
        checkedType(checkLogicalOperation(left.type, expr.operator, right.type),
                    right.a)))

\* An assignment that gives the symbol, when the current scope holds it,
\* the type of the value assigned.
analyzeAssignmentExpressionRetyping(expr, a) ==
    Then(analyzeExpression(expr.right, a), LAMBDA value :
        LET name == expr.left.name
            symbol == assign(value.a.environment, name)
        IN  IF ~symbol.ok
            THEN Thrown(symbol.error, value.a)
            ELSE IF symbol.info = UNDEFINED
            THEN Typed(value.type,
                       pushError(value.a,
                           <<"Cannot assign to undefined variable '", name, "'">>))
            ELSE IF name \in DOMAIN value.a.environment.symbols
            THEN Typed(value.type,
                       [value.a EXCEPT !.environment.symbols[name].type = value.type])
            ELSE Typed(value.type, value.a))

\* environment.assign raises for a const symbol and nothing here catches it.
analyzeAssignmentExpression(expr, a) ==
    Then(analyzeExpression(expr.right, a), LAMBDA value :
        LET name == expr.left.name
            symbol == assign(value.a.environment, name)
        IN  IF ~symbol.ok
            THEN Thrown(symbol.error, value.a)
            ELSE IF symbol.info = UNDEFINED
            THEN Typed(value.type,
                       pushError(value.a,
                           <<"Cannot assign to undefined variable '", name, "'">>))
            ELSE IF ~areTypesCompatible(symbol.info.type, value.type)
            THEN Typed(value.type,
                       pushError(value.a,
                           <<"Type error: Cannot assign ", value.type,
                             " to variable '", name, "' of type ",
                             symbol.info.type>>))
            ELSE Typed(value.type, value.a))

analyzeGroupingExpression(expr, a) == analyzeExpression(expr.expression, a)

\* `for (const arg of expr.arguments) this.analyzeExpression(arg)`
analyzeArguments(args, i, a) ==
    IF i > Len(args) THEN Typed("any", a)
    ELSE Then(analyzeExpression(args[i], a), LAMBDA arg :
             analyzeArguments(args, i + 1, arg.a))

analyzeCallExpression(expr, a) ==
    Then(analyzeExpression(expr.callee, a), LAMBDA callee :
        analyzeArguments(expr.arguments, 1,
            IF callee.type # "function" /\ callee.type # "any"
            THEN IF expr.callee.type = "Identifier"
                 THEN pushError(callee.a,
                          <<"Cannot call '", expr.callee.name,
                            "' - it is not a function (type: ", callee.type, ")">>)
                 ELSE pushError(callee.a,
                          <<"Cannot call expression - it is not a function (type: ",
                            callee.type, ")">>)
            ELSE callee.a))

analyzeExpression(expr, a) ==
    CASE expr.type = "LiteralExpression" -> analyzeLiteral(expr, a)
      [] expr.type = "Identifier" -> analyzeIdentifier(expr, a)
      [] expr.type = "BinaryExpression" -> analyzeBinaryExpression(expr, a)
      [] expr.type = "UnaryExpression" -> analyzeUnaryExpression(expr, a)
      [] expr.type = "LogicalExpression" -> analyzeLogicalExpression(expr, a)
      [] expr.type = "AssignmentExpression" -> analyzeAssignmentExpression(expr, a)
      [] expr.type = "GroupingExpression" -> analyzeGroupingExpression(expr, a)
      [] expr.type = "CallExpression" -> analyzeCallExpression(expr, a)
      [] OTHER -> Thrown(<<"Unknown expression type: ", expr.type>>, a)

analyzeVariableDeclaration(stmt, a) ==
    Then(IF stmt.initializer # NULL
         THEN analyzeExpression(stmt.initializer, a)
         ELSE Typed("undefined", a),
         LAMBDA initializer :
             Done(defineOrReport(initializer.a, stmt.identifier.name,
                      SymbolInfo(stmt.kind, initializer.type,
                                 stmt.initializer # NULL))))

\* `for (const param of stmt.parameters) try { define(param.name, ...) } ...`
analyzeParameters(parameters, i, a) ==
    IF i > Len(parameters) THEN a
    ELSE analyzeParameters(parameters, i + 1,
             defineOrReport(a, parameters[i].name, SymbolInfo("let", "any", TRUE)))

\* The for-of loop over a body: it ends at the first statement that raises.
analyzeStatements(stmts, i, a) ==
    IF i > Len(stmts) THEN Done(a)
    ELSE Then(analyzeStatement(stmts[i], a), LAMBDA r :
             analyzeStatements(stmts, i + 1, r.a))

\* The function's name is defined in the scope it is declared in, which is
\* the previousEnv the finally block puts back.
\* A function declaration whose body is analysed as a block of its own,
\* one scope below the parameters.
analyzeFunctionDeclarationNested(stmt, a) ==
    Then(Done(defineOrReport(a, stmt.name.name, SymbolInfo("let", "function", TRUE))),
         LAMBDA declared :
             finallyEnvironment(
                 analyzeStatement(stmt.body,
                     analyzeParameters(stmt.parameters, 1,
                         [declared.a EXCEPT !.environment = createChild(@)])),
                 declared.a.environment))

\* A function declaration whose body is analysed with a loop depth of 0.
analyzeFunctionDeclarationResetting(stmt, a) ==
    Then(Done(defineOrReport(a, stmt.name.name, SymbolInfo("let", "function", TRUE))),
         LAMBDA declared :
             [finallyEnvironment(
                  analyzeStatements(stmt.body.body, 1,
                      analyzeParameters(stmt.parameters, 1,
                          [declared.a EXCEPT !.environment = createChild(@),
                                             !.loopDepth = 0])),
                  declared.a.environment)
              EXCEPT !.a.loopDepth = a.loopDepth])

analyzeFunctionDeclaration(stmt, a) ==
    Then(Done(defineOrReport(a, stmt.name.name, SymbolInfo("let", "function", TRUE))),
         LAMBDA declared :
             finallyEnvironment(
                 analyzeStatements(stmt.body.body, 1,
                     analyzeParameters(stmt.parameters, 1,
                         [declared.a EXCEPT !.environment = createChild(@)])),
                 declared.a.environment))

analyzeExpressionStatement(stmt, a) ==
    Then(analyzeExpression(stmt.expression, a), LAMBDA expr : Done(expr.a))

\* A block analysis in the scope the block is in.
analyzeBlockStatementFlat(stmt, a) == analyzeStatements(stmt.body, 1, a)

\* A block that puts the scope back at its normal end only.
analyzeBlockStatementUnwound(stmt, a) ==
    Then(analyzeStatements(stmt.body, 1, [a EXCEPT !.environment = createChild(@)]),
         LAMBDA r : Done([r.a EXCEPT !.environment = a.environment]))

analyzeBlockStatement(stmt, a) ==
    finallyEnvironment(
        analyzeStatements(stmt.body, 1, [a EXCEPT !.environment = createChild(@)]),
        a.environment)

analyzeIfStatement(stmt, a) ==
    Then(analyzeExpression(stmt.condition, a), LAMBDA condition :
    Then(analyzeStatement(stmt.consequent, condition.a), LAMBDA consequent :
        IF stmt.alternate # NULL
        THEN analyzeStatement(stmt.alternate, consequent.a)
        ELSE consequent))

\* A while statement that leaves the loop depth as it is.
analyzeWhileStatementNoDepth(stmt, a) ==
    Then(analyzeExpression(stmt.condition, a), LAMBDA condition :
        analyzeStatement(stmt.body, condition.a))

analyzeWhileStatement(stmt, a) ==
    Then(analyzeExpression(stmt.condition, a), LAMBDA condition :
        finallyLoopDepth(
            analyzeStatement(stmt.body,
                [condition.a EXCEPT !.loopDepth = @ + 1])))

analyzeForStatement(stmt, a) ==
    finallyEnvironment(
        Then(IF stmt.init # NULL
             THEN analyzeStatement(stmt.init,
                      [a EXCEPT !.environment = createChild(@)])
             ELSE Done([a EXCEPT !.environment = createChild(@)]),
             LAMBDA init :
        Then(IF stmt.condition # NULL
             THEN analyzeExpression(stmt.condition, init.a)
             ELSE Done(init.a),
             LAMBDA condition :
        Then(IF stmt.update # NULL
             THEN analyzeExpression(stmt.update, condition.a)
             ELSE Done(condition.a),
             LAMBDA update :
                 finallyLoopDepth(
                     analyzeStatement(stmt.body,
                         [update.a EXCEPT !.loopDepth = @ + 1]))))),
        a.environment)

analyzeReturnStatement(stmt, a) ==
    IF stmt.argument # NULL
    THEN Then(analyzeExpression(stmt.argument, a), LAMBDA argument : Done(argument.a))
    ELSE Done(a)

analyzeBreakStatement(stmt, a) ==
    IF a.loopDepth = 0
    THEN Done(pushError(a, <<"'break' statement can only be used inside a loop">>))
    ELSE Done(a)

analyzeContinueStatement(stmt, a) ==
    IF a.loopDepth = 0
    THEN Done(pushError(a, <<"'continue' statement can only be used inside a loop">>))
    ELSE Done(a)

analyzeStatement(stmt, a) ==
    CASE stmt.type = "VariableDeclaration" -> analyzeVariableDeclaration(stmt, a)
      [] stmt.type = "FunctionDeclaration" -> analyzeFunctionDeclaration(stmt, a)
      [] stmt.type = "ExpressionStatement" -> analyzeExpressionStatement(stmt, a)
      [] stmt.type = "BlockStatement" -> analyzeBlockStatement(stmt, a)
      [] stmt.type = "IfStatement" -> analyzeIfStatement(stmt, a)
      [] stmt.type = "WhileStatement" -> analyzeWhileStatement(stmt, a)
      [] stmt.type = "ForStatement" -> analyzeForStatement(stmt, a)
      [] stmt.type = "ReturnStatement" -> analyzeReturnStatement(stmt, a)
      [] stmt.type = "BreakStatement" -> analyzeBreakStatement(stmt, a)
      [] stmt.type = "ContinueStatement" -> analyzeContinueStatement(stmt, a)
      [] OTHER -> Thrown(<<"Unknown statement type: ", stmt.type>>, a)

\* analyze()'s normal return.
analyzeReturn(a) == [success |-> a.errors = <<>>, errors |-> a.errors]

\* A catch block that drops the message.
analyzeCatchSilent(a, err) == [success |-> FALSE, errors |-> a.errors]

\* analyze()'s catch block, entered with the analyzer as the raise left it.
analyzeCatch(a, err) ==
    [success |-> FALSE, errors |-> Append(a.errors, err)]

(***************************************************************************)
(* Runtime values (values.ts).  A number is [whole, frac] as Number makes  *)
(* it, with a whole part of either sign, or NaN, or an infinity; a string  *)
(* is the sequence of its characters.                                      *)
(***************************************************************************)
JsInteger(n) == [whole |-> n, frac |-> <<>>]

NaN == [nan |-> TRUE]

Infinity == [infinite |-> 1]

IsInteger(x) == "whole" \in DOMAIN x /\ x.frac = <<>>

IsInfinite(x) == "infinite" \in DOMAIN x

Sign(x) ==
    IF IsInfinite(x) THEN x.infinite
    ELSE IF x.whole > 0 THEN 1 ELSE IF x.whole < 0 THEN -1 ELSE 0

Magnitude(n) == IF n < 0 THEN -n ELSE n

\* -x
JsNegate(x) ==
    IF x = NaN THEN NaN
    ELSE IF IsInfinite(x) THEN [infinite |-> -x.infinite]
    ELSE CASE IsInteger(x) -> JsInteger(-x.whole)

\* x + y
JsAdd(x, y) ==
    IF x = NaN \/ y = NaN THEN NaN
    ELSE IF IsInfinite(x) /\ IsInfinite(y) THEN (IF x = y THEN x ELSE NaN)
    ELSE IF IsInfinite(x) THEN x
    ELSE IF IsInfinite(y) THEN y
    ELSE CASE IsInteger(x) /\ IsInteger(y) -> JsInteger(x.whole + y.whole)

\* x * y
JsMultiply(x, y) ==
    IF x = NaN \/ y = NaN THEN NaN
    ELSE IF IsInfinite(x) \/ IsInfinite(y)
    THEN (IF Sign(x) * Sign(y) = 0 THEN NaN
          ELSE [infinite |-> Sign(x) * Sign(y)])
    ELSE CASE IsInteger(x) /\ IsInteger(y) -> JsInteger(x.whole * y.whole)

\* x / y for y other than 0; a quotient that is not whole is outside the
\* numbers of the model.
JsDivide(x, y) ==
    IF x = NaN \/ y = NaN THEN NaN
    ELSE IF IsInfinite(x) /\ IsInfinite(y) THEN NaN
    ELSE IF IsInfinite(x) THEN [infinite |-> Sign(x) * Sign(y)]
    ELSE IF IsInfinite(y) THEN JsInteger(0)
    ELSE CASE IsInteger(x) /\ IsInteger(y)
                  /\ Magnitude(x.whole) % Magnitude(y.whole) = 0 ->
                  JsInteger(Sign(x) * Sign(y)
                                * (Magnitude(x.whole) \div Magnitude(y.whole)))

\* x % y: the remainder has the sign of x.
JsRemainder(x, y) ==
    IF x = NaN \/ y = NaN \/ IsInfinite(x) \/ y = JsInteger(0) THEN NaN
    ELSE IF IsInfinite(y) THEN x
    ELSE CASE IsInteger(x) /\ IsInteger(y) ->
                  JsInteger(Sign(x) * (Magnitude(x.whole) % Magnitude(y.whole)))

\* x < y
JsLess(x, y) ==
    IF x = NaN \/ y = NaN THEN FALSE
    ELSE IF IsInfinite(x) THEN x.infinite = -1 /\ y # x
    ELSE IF IsInfinite(y) THEN y.infinite = 1
    ELSE CASE IsInteger(x) /\ IsInteger(y) -> x.whole < y.whole

\* x === y on numbers
JsSame(x, y) == x # NaN /\ x = y

DigitOf(n) == <<"0", "1", "2", "3", "4", "5", "6", "7", "8", "9">>[n + 1]

RECURSIVE DigitsOf(_)
DigitsOf(n) ==
    IF n < 10 THEN <<DigitOf(n)>>
    ELSE Append(DigitsOf(n \div 10), DigitOf(n % 10))

\* String(x) of a number
NumberToString(x) ==
    IF x = NaN THEN <<"N", "a", "N">>
    ELSE IF IsInfinite(x)
    THEN (IF x.infinite < 0 THEN <<"-">> ELSE <<>>)
             \o <<"I", "n", "f", "i", "n", "i", "t", "y">>
    ELSE (IF x.whole < 0 THEN <<"-">> ELSE <<>>)
             \o DigitsOf(Magnitude(x.whole))
             \o (IF x.frac = <<>> THEN <<>> ELSE <<".">> \o x.frac)

\* Number(s) of a string: the empty string is 0, a decimal numeral its
\* value, any other text of letters and digits NaN.
StringToNumber(s) ==
    IF s = <<>> THEN JsInteger(0)
    ELSE IF /\ \A k \in 1..Len(s) : isDigit(s[k]) \/ s[k] = "."
            /\ Cardinality({k \in 1..Len(s) : s[k] = "."}) <= 1
            /\ \E k \in 1..Len(s) : isDigit(s[k])
    THEN Number(s)
    ELSE NaN

createNumberValue(value) == [type |-> "number", value |-> value]

createStringValue(value) == [type |-> "string", value |-> value]

createBooleanValue(value) == [type |-> "boolean", value |-> value]

createNullValue == [type |-> "null", value |-> NULL]

createUndefinedValue == [type |-> "undefined", value |-> UNDEFINED]

isNumber(value) == value.type = "number"

isString(value) == value.type = "string"

isNull(value) == value.type = "null"

isUndefined(value) == value.type = "undefined"

toBoolean(value) ==
    CASE value.type = "boolean" -> value.value
      [] value.type = "number" -> value.value # JsInteger(0) /\ value.value # NaN
      [] value.type = "string" -> Len(value.value) > 0
      [] value.type \in {"null", "undefined"} -> FALSE
      [] OTHER -> TRUE

toString(value) ==
    CASE value.type = "number" -> NumberToString(value.value)
      [] value.type = "boolean" ->
             IF value.value THEN <<"t", "r", "u", "e">>
             ELSE <<"f", "a", "l", "s", "e">>
      [] value.type = "string" -> value.value
      [] value.type = "null" -> <<"n", "u", "l", "l">>
      [] value.type = "undefined" ->
             <<"u", "n", "d", "e", "f", "i", "n", "e", "d">>
      [] OTHER -> <<"[Unknown Value]">>

toNumber(value) ==
    CASE value.type = "number" -> value.value
      [] value.type = "boolean" -> IF value.value THEN JsInteger(1) ELSE JsInteger(0)
      [] value.type = "string" ->
             IF StringToNumber(value.value) = NaN THEN JsInteger(0)
             ELSE StringToNumber(value.value)
      [] value.type = "null" -> JsInteger(0)
      [] OTHER -> NaN

areValuesEqual(left, right) ==
    IF left.type = right.type
    THEN IF isNumber(left) THEN JsSame(left.value, right.value)
         ELSE left.value = right.value
    ELSE IF (isNull(left) /\ isUndefined(right)) \/ (isUndefined(left) /\ isNull(right))
    THEN TRUE
    ELSE IF isNumber(left) \/ isNumber(right)
    THEN JsSame(toNumber(left), toNumber(right))
    ELSE FALSE

(***************************************************************************)
(* Control flow exceptions (control-flow.ts) and runtime errors.           *)
(***************************************************************************)
BreakException == [name |-> "BreakException", message |-> <<"break">>]

ContinueException == [name |-> "ContinueException", message |-> <<"continue">>]

ReturnException(value) ==
    [name |-> "ReturnException", message |-> <<"return">>, value |-> value]

\* new Error(message)
Error(message) == [name |-> "Error", message |-> message]

(***************************************************************************)
(* RuntimeEnvironment.  The scopes are objects: interpreter.heap[e] is the *)
(* scope with reference e, [variables, parent], and a reference to a       *)
(* scope stays good after the current scope has moved on.                  *)
(***************************************************************************)
NoParent == 0

NoVariables == [name \in {} |-> UNDEFINED]

RuntimeEnvironment(parent) == [variables |-> NoVariables, parent |-> parent]

\* this.variables.set(name, value) in the scope e
runtimeDefine(heap, e, name, value) ==
    [heap EXCEPT ![e].variables =
        [n \in DOMAIN @ \cup {name} |-> IF n = name THEN value ELSE @[n]]]

RECURSIVE runtimeLookup(_, _, _)
runtimeLookup(heap, e, name) ==
    IF name \in DOMAIN heap[e].variables THEN heap[e].variables[name]
    ELSE IF heap[e].parent # NoParent THEN runtimeLookup(heap, heap[e].parent, name)
    ELSE UNDEFINED

runtimeExists(heap, e, name) == runtimeLookup(heap, e, name) # UNDEFINED

\* An assign that binds the name in the scope it is called on.
runtimeAssignHere(heap, e, name, value) ==
    IF runtimeLookup(heap, e, name) # UNDEFINED
    THEN [success |-> TRUE, heap |-> runtimeDefine(heap, e, name, value)]
    ELSE [success |-> FALSE, heap |-> heap]

\* [success, heap]: what assign returns and the scopes after it.
RECURSIVE runtimeAssign(_, _, _, _)
runtimeAssign(heap, e, name, value) ==
    IF name \in DOMAIN heap[e].variables
    THEN [success |-> TRUE, heap |-> runtimeDefine(heap, e, name, value)]
    ELSE IF heap[e].parent # NoParent
    THEN runtimeAssign(heap, heap[e].parent, name, value)
    ELSE [success |-> FALSE, heap |-> heap]

\* new RuntimeEnvironment(this): the heap with the child, whose reference
\* is the length of the heap.
runtimeCreateChild(heap, e) == Append(heap, RuntimeEnvironment(e))

runtimeIsGlobal(heap, e) == heap[e].parent = NoParent

(***************************************************************************)
(* Interpreter (src/unnamed/part_002).  i is the interpreter object         *)
(* [environment, heap, lastValue], environment the reference of the        *)
(* current scope.  An execution returns [ok |-> TRUE, i]; an evaluation    *)
(* [ok |-> TRUE, value, i]; what raised [ok |-> FALSE, error, i], with i   *)
(* as the finally blocks passed on the way left it.                        *)
(***************************************************************************)
NewInterpreter ==
    [environment |-> 1, heap |-> <<RuntimeEnvironment(NoParent)>>,
     lastValue |-> createUndefinedValue]

Completed(i) == [ok |-> TRUE, i |-> i]

Value(value, i) == [ok |-> TRUE, value |-> value, i |-> i]

Throw(exception, i) == [ok |-> FALSE, error |-> exception, i |-> i]

\* What comes after a try block, whatever came out of it.
Handle(r, F(_)) == F(r)

\* this.environment = this.environment.createChild()
enterChild(i) ==
    [i EXCEPT !.heap = runtimeCreateChild(@, i.environment),
              !.environment = Len(i.heap) + 1]

\* `finally { this.environment = previousEnv }`
finallyRuntimeEnvironment(r, previousEnv) ==
    [r EXCEPT !.i.environment = previousEnv]

RECURSIVE executeStatement(_, _), executeStatements(_, _, _)
RECURSIVE evaluateExpression(_, _)
RECURSIVE executeWhileStatement(_, _), executeForLoop(_, _)

evaluateLiteral(expr, i) ==
    CASE expr.value.t = "number" -> Value(createNumberValue(expr.value.v), i)
      [] expr.value.t = "string" -> Value(createStringValue(expr.value.v), i)
      [] expr.value.t = "boolean" -> Value(createBooleanValue(expr.value.v), i)
      [] expr.value.t = "null" -> Value(createNullValue, i)
      [] OTHER -> Value(createUndefinedValue, i)

evaluateIdentifier(expr, i) ==
    IF runtimeLookup(i.heap, i.environment, expr.name) = UNDEFINED
    THEN Throw(Error(<<"Runtime Error: Variable '", expr.name, "' is not defined">>), i)
    ELSE Value(runtimeLookup(i.heap, i.environment, expr.name), i)

\* The operation on the two operand values.
binaryOperation(operator, left, right) ==
    CASE operator = "PLUS" ->
             IF isString(left) \/ isString(right)
             THEN createStringValue(toString(left) \o toString(right))
             ELSE createNumberValue(JsAdd(toNumber(left), toNumber(right)))
      [] operator = "MINUS" ->
             createNumberValue(JsAdd(toNumber(left), JsNegate(toNumber(right))))
      [] operator = "STAR" ->
             createNumberValue(JsMultiply(toNumber(left), toNumber(right)))
      [] operator = "SLASH" ->
             IF toNumber(right) = JsInteger(0)
             THEN createNumberValue(Infinity)
             ELSE createNumberValue(JsDivide(toNumber(left), toNumber(right)))
      [] operator = "PERCENT" ->
             createNumberValue(JsRemainder(toNumber(left), toNumber(right)))
      [] operator = "LESS" ->
             createBooleanValue(JsLess(toNumber(left), toNumber(right)))
      [] operator = "LESS_EQUAL" ->
             createBooleanValue(JsLess(toNumber(left), toNumber(right))
                                \/ JsSame(toNumber(left), toNumber(right)))
      [] operator = "GREATER" ->
             createBooleanValue(JsLess(toNumber(right), toNumber(left)))
      [] operator = "GREATER_EQUAL" ->
             createBooleanValue(JsLess(toNumber(right), toNumber(left))
                                \/ JsSame(toNumber(left), toNumber(right)))
      [] operator = "EQUAL_EQUAL" -> createBooleanValue(areValuesEqual(left, right))
      [] operator = "BANG_EQUAL" -> createBooleanValue(~areValuesEqual(left, right))

evaluateBinaryExpression(expr, i) ==
    Then(evaluateExpression(expr.left, i), LAMBDA left :
    Then(evaluateExpression(expr.right, left.i), LAMBDA right :
        IF expr.operator \in {"PLUS", "MINUS", "STAR", "SLASH", "PERCENT", "LESS",
                              "LESS_EQUAL", "GREATER", "GREATER_EQUAL",
                              "EQUAL_EQUAL", "BANG_EQUAL"}
        THEN Value(binaryOperation(expr.operator, left.value, right.value), right.i)
        ELSE Throw(Error(<<"Unknown binary operator: ", expr.operator>>), right.i)))

evaluateUnaryExpression(expr, i) ==
    Then(evaluateExpression(expr.argument, i), LAMBDA operand :
        IF expr.operator = "MINUS"
        THEN Value(createNumberValue(JsNegate(toNumber(operand.value))), operand.i)
        ELSE IF expr.operator = "BANG"
        THEN Value(createBooleanValue(~toBoolean(operand.value)), operand.i)
        ELSE Throw(Error(<<"Unknown unary operator: ", expr.operator>>), operand.i))

\* A logical expression that evaluates both operands before it chooses.
evaluateLogicalExpressionEager(expr, i) ==
    Then(evaluateExpression(expr.left, i), LAMBDA left :
    Then(evaluateExpression(expr.right, left.i), LAMBDA right :
        IF expr.operator = "AND"
        THEN (IF ~toBoolean(left.value) THEN Value(left.value, right.i) ELSE right)
        ELSE IF expr.operator = "OR"
        THEN (IF toBoolean(left.value) THEN Value(left.value, right.i) ELSE right)
        ELSE Throw(Error(<<"Unknown logical operator: ", expr.operator>>), right.i)))

evaluateLogicalExpression(expr, i) ==
    Then(evaluateExpression(expr.left, i), LAMBDA left :
        IF expr.operator = "AND"
        THEN (IF ~toBoolean(left.value) THEN left
              ELSE evaluateExpression(expr.right, left.i))
        ELSE IF expr.operator = "OR"
        THEN (IF toBoolean(left.value) THEN left
              ELSE evaluateExpression(expr.right, left.i))
        ELSE Throw(Error(<<"Unknown logical operator: ", expr.operator>>), left.i))

evaluateAssignmentExpression(expr, i) ==
    Then(evaluateExpression(expr.right, i), LAMBDA right :
        IF runtimeAssign(right.i.heap, right.i.environment, expr.left.name,
                         right.value).success
        THEN Value(right.value,
                 [right.i EXCEPT !.heap =
                     runtimeAssign(@, right.i.environment, expr.left.name,
                                   right.value).heap])
        ELSE Throw(Error(<<"Runtime Error: Cannot assign to undefined variable '",
                           expr.left.name, "'">>), right.i))

evaluateGroupingExpression(expr, i) == evaluateExpression(expr.expression, i)

evaluateCallExpression(expr, i) ==
    Throw(Error(<<"Function calls not yet implemented">>), i)

evaluateExpression(expr, i) ==
    CASE expr.type = "LiteralExpression" -> evaluateLiteral(expr, i)
      [] expr.type = "Identifier" -> evaluateIdentifier(expr, i)
      [] expr.type = "BinaryExpression" -> evaluateBinaryExpression(expr, i)
      [] expr.type = "UnaryExpression" -> evaluateUnaryExpression(expr, i)
      [] expr.type = "LogicalExpression" -> evaluateLogicalExpression(expr, i)
      [] expr.type = "AssignmentExpression" -> evaluateAssignmentExpression(expr, i)
      [] expr.type = "GroupingExpression" -> evaluateGroupingExpression(expr, i)
      [] expr.type = "CallExpression" -> evaluateCallExpression(expr, i)
      [] OTHER -> Throw(Error(<<"Unknown expression type: ", expr.type>>), i)

\* A declaration that raises for a name the current scope binds already.
executeVariableDeclarationOnce(stmt, i) ==
    Then(IF stmt.initializer # NULL
         THEN evaluateExpression(stmt.initializer, i)
         ELSE Value(createUndefinedValue, i),
         LAMBDA initializer :
             IF stmt.identifier.name
                    \in DOMAIN initializer.i.heap[initializer.i.environment].variables
             THEN Throw(Error(<<"Variable '", stmt.identifier.name,
                                "' already declared">>), initializer.i)
             ELSE Completed([initializer.i EXCEPT !.heap =
                      runtimeDefine(@, initializer.i.environment,
                                    stmt.identifier.name, initializer.value)]))

\* A declaration that binds the name, to undefined, before it evaluates
\* the initializer.
executeVariableDeclarationHoisting(stmt, i) ==
    Then(IF stmt.initializer # NULL
         THEN evaluateExpression(stmt.initializer,
                  [i EXCEPT !.heap = runtimeDefine(@, i.environment,
                                         stmt.identifier.name,
                                         createUndefinedValue)])
         ELSE Value(createUndefinedValue, i),
         LAMBDA initializer :
             Completed([initializer.i EXCEPT !.heap =
                 runtimeDefine(@, initializer.i.environment, stmt.identifier.name,
                               initializer.value)]))

executeVariableDeclaration(stmt, i) ==
    Then(IF stmt.initializer # NULL
         THEN evaluateExpression(stmt.initializer, i)
         ELSE Value(createUndefinedValue, i),
         LAMBDA initializer :
             Completed([initializer.i EXCEPT !.heap =
                 runtimeDefine(@, initializer.i.environment, stmt.identifier.name,
                               initializer.value)]))

\* An expression statement whose value is not kept.
executeExpressionStatementDropping(stmt, i) ==
    Then(evaluateExpression(stmt.expression, i), LAMBDA expr : Completed(expr.i))

executeExpressionStatement(stmt, i) ==
    Then(evaluateExpression(stmt.expression, i), LAMBDA expr :
        Completed([expr.i EXCEPT !.lastValue = expr.value]))

\* The for-of loop over a body: it ends at the first statement that raises.
executeStatements(stmts, k, i) ==
    IF k > Len(stmts) THEN Completed(i)
    ELSE Then(executeStatement(stmts[k], i), LAMBDA r :
             executeStatements(stmts, k + 1, r.i))

\* A block that leaves the scope it made as the current one.
executeBlockStatementLeaking(stmt, i) ==
    executeStatements(stmt.body, 1, enterChild(i))

\* newScope is true at the one place that calls it.
executeBlockStatement(stmt, i) ==
    finallyRuntimeEnvironment(executeStatements(stmt.body, 1, enterChild(i)),
                              i.environment)

executeIfStatement(stmt, i) ==
    Then(evaluateExpression(stmt.condition, i), LAMBDA condition :
        IF toBoolean(condition.value)
        THEN executeStatement(stmt.consequent, condition.i)
        ELSE IF stmt.alternate # NULL
        THEN executeStatement(stmt.alternate, condition.i)
        ELSE Completed(condition.i))

\* A while loop that ends at a break and passes the break on.
executeWhileStatementPassing(stmt, i) ==
    Then(evaluateExpression(stmt.condition, i), LAMBDA condition :
        IF ~toBoolean(condition.value) THEN Completed(condition.i)
        ELSE Handle(executeStatement(stmt.body, condition.i), LAMBDA body :
                 IF body.ok THEN executeWhileStatement(stmt, body.i)
                 ELSE IF body.error.name = "ContinueException"
                 THEN executeWhileStatement(stmt, body.i)
                 ELSE body))

executeWhileStatement(stmt, i) ==
    Then(evaluateExpression(stmt.condition, i), LAMBDA condition :
        IF ~toBoolean(condition.value) THEN Completed(condition.i)
        ELSE Handle(executeStatement(stmt.body, condition.i), LAMBDA body :
                 IF body.ok THEN executeWhileStatement(stmt, body.i)
                 ELSE IF body.error.name = "BreakException" THEN Completed(body.i)
                 ELSE IF body.error.name = "ContinueException"
                 THEN executeWhileStatement(stmt, body.i)
                 ELSE body))

\* What a for loop does with its body when a continue ends the loop.
forIterationContinueEnds(stmt, body) ==
    IF ~body.ok /\ body.error.name \in {"BreakException", "ContinueException"}
    THEN Completed(body.i)
    ELSE IF ~body.ok THEN body
    ELSE Then(IF stmt.update # NULL
              THEN evaluateExpression(stmt.update, body.i)
              ELSE Completed(body.i),
              LAMBDA update : executeForLoop(stmt, update.i))

\* The rest of an iteration of a for loop, from what its body came to: the
\* catch block around the body, the update clause and the next iteration.
forIteration(stmt, body) ==
    IF ~body.ok /\ body.error.name = "BreakException" THEN Completed(body.i)
    ELSE IF ~body.ok /\ body.error.name # "ContinueException" THEN body
    ELSE Then(IF stmt.update # NULL
              THEN evaluateExpression(stmt.update, body.i)
              ELSE Completed(body.i),
              LAMBDA update : executeForLoop(stmt, update.i))

\* The `while (true)` of a for statement.
executeForLoop(stmt, i) ==
    Then(IF stmt.condition # NULL
         THEN evaluateExpression(stmt.condition, i)
         ELSE Value(createBooleanValue(TRUE), i),
         LAMBDA condition :
             IF ~toBoolean(condition.value) THEN Completed(condition.i)
             ELSE Handle(executeStatement(stmt.body, condition.i),
                         LAMBDA body : forIteration(stmt, body)))

executeForStatement(stmt, i) ==
    finallyRuntimeEnvironment(
        Then(IF stmt.init # NULL
             THEN executeStatement(stmt.init, enterChild(i))
             ELSE Completed(enterChild(i)),
             LAMBDA init : executeForLoop(stmt, init.i)),
        i.environment)

executeReturnStatement(stmt, i) ==
    Then(IF stmt.argument # NULL
         THEN evaluateExpression(stmt.argument, i)
         ELSE Value(createUndefinedValue, i),
         LAMBDA argument : Throw(ReturnException(argument.value), argument.i))

executeBreakStatement(stmt, i) == Throw(BreakException, i)

executeContinueStatement(stmt, i) == Throw(ContinueException, i)

executeStatement(stmt, i) ==
    CASE stmt.type = "VariableDeclaration" -> executeVariableDeclaration(stmt, i)
      [] stmt.type = "ExpressionStatement" -> executeExpressionStatement(stmt, i)
      [] stmt.type = "BlockStatement" -> executeBlockStatement(stmt, i)
      [] stmt.type = "IfStatement" -> executeIfStatement(stmt, i)
      [] stmt.type = "WhileStatement" -> executeWhileStatement(stmt, i)
      [] stmt.type = "ForStatement" -> executeForStatement(stmt, i)
      [] stmt.type = "ReturnStatement" -> executeReturnStatement(stmt, i)
      [] stmt.type = "BreakStatement" -> executeBreakStatement(stmt, i)
      [] stmt.type = "ContinueStatement" -> executeContinueStatement(stmt, i)
      [] OTHER -> Throw(Error(<<"Unknown statement type: ", stmt.type>>), i)

(***************************************************************************)
(* Source texts the scanner is run on: every text of at most MaxSourceLen  *)
(* characters over ScanAlphabet, and the texts of SampleSources.           *)
(***************************************************************************)
ScanAlphabet ==
    {" ", "\t", "\n", "1", ".", "a", "\"", "(", "+", "=", "&", ";", "{", ","}

SampleSources ==
    { <<"l", "e", "t", " ", "x", " ", "=", " ", "5", ";">>,
      <<"{", "}">>,
      <<"a", " ", "|", "|", " ", "b", " ", "&", "&", " ", "c">>,
      <<"x", " ", ">", "=", " ", "1", "2", ".", "5", "\n", "!", "t", "r", "u", "e">>,
      <<"1", "2", "3", ".">>,
      <<"_", "a", "1", "\r", "\n", "(", "'", "\"", "'", ")", "}">>,
      <<"'", "a", " ", "b", "'", " ", "-", "1", "*", "2", "/", "3", "%", "4">>,
      <<"i", "f", "(", "x", "<", "1", ")", "y", "!", "=", "2">> }

Sources ==
    UNION {[1..n -> ScanAlphabet] : n \in 0..MaxSourceLen} \cup SampleSources

(***************************************************************************)
(* Token lists the parser is constructed with.  A word is a token without  *)
(* its position; Layout gives the words the positions the scanner's        *)
(* counters would give them in a text that has one space between words and *)
(* a line break after each `;`, and ends the list with the EOF token.      *)
(***************************************************************************)
Word(type, value) == [type |-> type, value |-> value]

Lexeme(type) ==
    CASE type = "PLUS" -> <<"+">>
      [] type = "MINUS" -> <<"-">>
      [] type = "STAR" -> <<"*">>
      [] type = "SLASH" -> <<"/">>
      [] type = "PERCENT" -> <<"%">>
      [] type = "EQUAL_EQUAL" -> <<"=", "=">>
      [] type = "BANG_EQUAL" -> <<"!", "=">>
      [] type = "LESS" -> <<"<">>
      [] type = "LESS_EQUAL" -> <<"<", "=">>
      [] type = "GREATER" -> <<">">>
      [] type = "GREATER_EQUAL" -> <<">", "=">>
      [] type = "BANG" -> <<"!">>
      [] type = "AND" -> <<"&", "&">>
      [] type = "OR" -> <<"|", "|">>
      [] type = "EQUAL" -> <<"=">>
      [] type = "LPAREN" -> <<"(">>
      [] type = "RPAREN" -> <<")">>
      [] type = "LBRACE" -> <<"{">>
      [] type = "RBRACE" -> <<"}">>
      [] type = "SEMICOLON" -> <<";">>
      [] type = "COMMA" -> <<",">>
      [] type = "LET" -> <<"l", "e", "t">>
      [] type = "CONST" -> <<"c", "o", "n", "s", "t">>
      [] type = "IF" -> <<"i", "f">>
      [] type = "ELSE" -> <<"e", "l", "s", "e">>
      [] type = "WHILE" -> <<"w", "h", "i", "l", "e">>
      [] type = "FOR" -> <<"f", "o", "r">>
      [] type = "RETURN" -> <<"r", "e", "t", "u", "r", "n">>
      [] type = "BREAK" -> <<"b", "r", "e", "a", "k">>
      [] type = "CONTINUE" -> <<"c", "o", "n", "t", "i", "n", "u", "e">>
      [] type = "TRUE" -> <<"t", "r", "u", "e">>
      [] type = "FALSE" -> <<"f", "a", "l", "s", "e">>
      [] type = "NULL" -> <<"n", "u", "l", "l">>

W(type) == Word(type, Lexeme(type))

Id(name) == Word("IDENTIFIER", <<name>>)

Num(digit) == Word("NUMBER", <<digit>>)

Str(char) == Word("STRING", <<char>>)

Words(types) == [i \in 1..Len(types) |-> W(types[i])]

WordWidth(word) ==
    Len(word.value) + (IF word.type = "STRING" THEN 2 ELSE 0)

RECURSIVE LayoutFrom(_, _, _, _, _)
LayoutFrom(words, i, line, column, out) ==
    IF i > Len(words)
    THEN Append(out, [type |-> "EOF", value |-> <<>>, line |-> line,
                      column |-> column])
    ELSE LET broken == i > 1 /\ words[i - 1].type = "SEMICOLON"
             ln == IF broken THEN line + 1 ELSE line
             start == IF broken THEN 1 ELSE IF i > 1 THEN column + 1 ELSE column
             col == start + WordWidth(words[i])
         IN  LayoutFrom(words, i + 1, ln, col,
                        Append(out, [type |-> words[i].type,
                                     value |-> words[i].value,
                                     line |-> ln, column |-> col]))

Layout(words) == LayoutFrom(words, 1, 0, 0, <<>>)

BinaryOperators ==
    {"OR", "AND", "EQUAL_EQUAL", "BANG_EQUAL", "LESS", "LESS_EQUAL", "GREATER",
     "GREATER_EQUAL", "PLUS", "MINUS", "STAR", "SLASH", "PERCENT"}

InfixOperators == BinaryOperators \cup {"EQUAL"}

TokenAlphabet ==
    {Num("1"), Id("a"), W("PLUS"), W("STAR"), W("EQUAL"), W("LPAREN"),
     W("RPAREN"), W("SEMICOLON"), W("LBRACE"), W("RBRACE"), W("LET")}

\* a p b q c   and   ( a p b ) q c
InfixShapes ==
    {<<Id("a"), W(op1), Id("b"), W(op2), Num("1")>> :
        op1 \in InfixOperators, op2 \in InfixOperators}
    \cup
    {<<W("LPAREN"), Id("a"), W(op1), Id("b"), W("RPAREN"), W(op2), Num("1")>> :
        op1 \in InfixOperators, op2 \in InfixOperators}

\* left = right, for left-hand sides that are and are not an Identifier
AssignmentTargets ==
    {<<Id("x")>>, <<Num("1")>>, <<Str("s")>>, <<W("TRUE")>>,
     <<W("LPAREN"), Id("x"), W("RPAREN")>>, <<Id("x"), W("PLUS"), Id("y")>>,
     <<W("MINUS"), Id("x")>>, <<Id("x"), W("OR"), Id("y")>>}

AssignmentValues ==
    {<<Id("y")>>, <<Num("2"), W("STAR"), Id("y")>>, <<Id("y"), W("EQUAL"), Num("3")>>,
     <<Num("2"), W("EQUAL"), Num("3")>>, <<>>, <<W("PLUS")>>,
     <<W("LPAREN"), Id("y")>>}

AssignmentShapes ==
    {left \o <<W("EQUAL")>> \o right \o tail :
        left \in AssignmentTargets, right \in AssignmentValues,
        tail \in {<<>>, <<W("SEMICOLON")>>}}

SampleWords ==
    { \* let x = 5 ;
      <<W("LET"), Id("x"), W("EQUAL"), Num("5"), W("SEMICOLON")>>,
      \* const x ;
      <<W("CONST"), Id("x"), W("SEMICOLON")>>,
      \* let x = 5
      <<W("LET"), Id("x"), W("EQUAL"), Num("5")>>,
      \* let 1 = 5 ;
      <<W("LET"), Num("1"), W("EQUAL"), Num("5"), W("SEMICOLON")>>,
      \* { let x = 5 ;
      <<W("LBRACE"), W("LET"), Id("x"), W("EQUAL"), Num("5"), W("SEMICOLON")>>,
      \* if x > 5 { }
      <<W("IF"), Id("x"), W("GREATER"), Num("5"), W("LBRACE"), W("RBRACE")>>,
      \* if ( x ) { } else y ;
      <<W("IF"), W("LPAREN"), Id("x"), W("RPAREN"), W("LBRACE"), W("RBRACE"),
        W("ELSE"), Id("y"), W("SEMICOLON")>>,
      \* while ( x ) break ;
      <<W("WHILE"), W("LPAREN"), Id("x"), W("RPAREN"), W("BREAK"),
        W("SEMICOLON")>>,
      \* while ( x ) { continue }
      <<W("WHILE"), W("LPAREN"), Id("x"), W("RPAREN"), W("LBRACE"),
        W("CONTINUE"), W("RBRACE")>>,
      \* for ( let i = 0 ; i < 3 ; i = i + 1 ) { }
      <<W("FOR"), W("LPAREN"), W("LET"), Id("i"), W("EQUAL"), Num("0"),
        W("SEMICOLON"), Id("i"), W("LESS"), Num("3"), W("SEMICOLON"), Id("i"),
        W("EQUAL"), Id("i"), W("PLUS"), Num("1"), W("RPAREN"), W("LBRACE"),
        W("RBRACE")>>,
      \* for ( ; ; ) x ;
      <<W("FOR"), W("LPAREN"), W("SEMICOLON"), W("SEMICOLON"), W("RPAREN"),
        Id("x"), W("SEMICOLON")>>,
      \* for ( x ; ; { }
      <<W("FOR"), W("LPAREN"), Id("x"), W("SEMICOLON"), W("SEMICOLON"),
        W("LBRACE"), W("RBRACE")>>,
      \* return ; return x + 1 ; x ; y
      <<W("RETURN"), W("SEMICOLON"), W("RETURN"), Id("x"), W("PLUS"), Num("1"),
        W("SEMICOLON"), Id("x"), W("SEMICOLON"), Id("y")>>,
      \* ! true == - null ;
      <<W("BANG"), W("TRUE"), W("EQUAL_EQUAL"), W("MINUS"), W("NULL"),
        W("SEMICOLON")>>,
      \* a && "s" || false
      <<Id("a"), W("AND"), Str("s"), W("OR"), W("FALSE")>> }

MaxTokens == 3

WordLists ==
    UNION {[1..n -> TokenAlphabet] : n \in 0..MaxTokens}
    \cup InfixShapes \cup AssignmentShapes \cup SampleWords

TokenLists == {Layout(words) : words \in WordLists}

NoProgram == [type |-> "Program", body |-> <<>>]

ScannerIdle ==
    /\ scanner = [source |-> <<>>, current |-> 0, line |-> 0, column |-> 0]
    /\ tokenList = <<>>
    /\ scanPc = "idle"
    /\ scanError = <<>>

ParserIdle ==
    /\ parser = [tokens |-> <<>>, current |-> 0]
    /\ statements = <<>>
    /\ parsePc = "idle"
    /\ parseResult = [ok |-> TRUE]

\* No report yet.
NoResult == [pending |-> TRUE]

AnalyzerIdle ==
    /\ program = NoProgram
    /\ analyzer = NewSemanticAnalyzer
    /\ stmtIndex = 0
    /\ analyzePc = "never"
    /\ analysisResult = NoResult
    /\ analyzeCalls = 0

InterpreterIdle ==
    /\ interpreter = NewInterpreter
    /\ ast = NoProgram
    /\ execIndex = 0
    /\ executePc = "never"
    /\ executeResult = NoResult
    /\ executeCalls = 0

(***************************************************************************)
(* The scanner as a state machine: new Scanner(source), then scanTokens,   *)
(* one step per iteration of its loop.                                     *)
(***************************************************************************)
InitScan ==
    /\ \E source \in Sources :
           scanner = [source |-> source, current |-> 0, line |-> 0, column |-> 0]
    /\ tokenList = <<>>
    /\ scanPc = "loop"
    /\ scanError = <<>>
    /\ ParserIdle
    /\ AnalyzerIdle
    /\ InterpreterIdle

\* One iteration of `while (!this.isAtEnd())`: skip white space, leave the
\* loop when that reached the end, else scan one token or raise.
ScanIteration ==
    /\ scanPc = "loop"
    /\ ~isAtEnd(scanner)
    /\ LET sc == skipWhiteSpace(scanner) IN
       IF isAtEnd(sc)
       THEN /\ scanner' = sc
            /\ tokenList' = scanTokensReturn(sc, tokenList)
            /\ scanPc' = "done"
            /\ scanError' = scanError
       ELSE LET scanned == scanToken(sc) IN
            IF scanned.ok
            THEN /\ scanner' = scanned.sc
                 /\ tokenList' = Append(tokenList, scanned.token)
                 /\ scanPc' = "loop"
                 /\ scanError' = scanError
            ELSE /\ scanner' = scanned.sc
                 /\ tokenList' = tokenList
                 /\ scanPc' = "error"
                 /\ scanError' = scanned.error
    /\ UNCHANGED <<parseVars, analyzeVars, executeVars>>

\* The loop condition fails: push EOF and return.
ScanReturn ==
    /\ scanPc = "loop"
    /\ isAtEnd(scanner)
    /\ tokenList' = scanTokensReturn(scanner, tokenList)
    /\ scanPc' = "done"
    /\ UNCHANGED <<scanner, scanError, parseVars, analyzeVars, executeVars>>

(***************************************************************************)
(* The parser as a state machine: new Parser(tokens), then either          *)
(* parseExpression() or parse(), the latter one step per iteration of its  *)
(* loop.                                                                   *)
(***************************************************************************)
InitParse ==
    /\ ScannerIdle
    /\ \E tokens \in TokenLists : parser = [tokens |-> tokens, current |-> 0]
    /\ statements = <<>>
    /\ parsePc = "ready"
    /\ parseResult = [ok |-> TRUE]
    /\ AnalyzerIdle
    /\ InterpreterIdle

\* main.ts parse(source) and the tests' helpers: the parser is constructed
\* with the list scanTokens returned.
NewParser ==
    /\ scanPc = "done"
    /\ parsePc = "idle"
    /\ parser' = [tokens |-> tokenList, current |-> 0]
    /\ parsePc' = "ready"
    /\ UNCHANGED <<scanVars, statements, parseResult, analyzeVars, executeVars>>

\* parser.parseExpression() on the new parser.
ParseExpressionCall ==
    /\ parsePc = "ready"
    /\ LET expr == parseExpression(parser) IN
       /\ parser' = expr.p
       /\ parsePc' = IF expr.ok THEN "exprDone" ELSE "exprError"
       /\ parseResult' = IF expr.ok THEN [ok |-> TRUE, node |-> expr.node]
                         ELSE [ok |-> FALSE, error |-> expr.error]
    /\ UNCHANGED <<scanVars, statements, analyzeVars, executeVars>>

\* One iteration of parse()'s `while (!this.isAtEnd())`.
ParseIteration ==
    /\ parsePc \in {"ready", "loop"}
    /\ ~parserIsAtEnd(parser)
    /\ LET statement == parseStatement(parser) IN
       /\ parser' = statement.p
       /\ IF statement.ok
          THEN /\ statements' = Append(statements, statement.node)
               /\ parsePc' = "loop"
               /\ parseResult' = parseResult
          ELSE /\ statements' = statements
               /\ parsePc' = "error"
               /\ parseResult' = [ok |-> FALSE, error |-> statement.error]
    /\ UNCHANGED <<scanVars, analyzeVars, executeVars>>

\* parse()'s loop condition fails: return the Program.
ParseReturn ==
    /\ parsePc \in {"ready", "loop"}
    /\ parserIsAtEnd(parser)
    /\ parseResult' = [ok |-> TRUE, node |-> createProgram(statements)]
    /\ parsePc' = "done"
    /\ UNCHANGED <<scanVars, parser, statements, analyzeVars, executeVars>>

NextParse == ParseExpressionCall \/ ParseIteration \/ ParseReturn

SpecParse == InitParse /\ [][NextParse]_vars

\* Source text to tokens to AST.
NextScan ==
    \/ ScanIteration
    \/ ScanReturn
    \/ NewParser
    \/ ParseExpressionCall
    \/ ParseIteration
    \/ ParseReturn

SpecScan == InitScan /\ [][NextScan]_vars

\* Source text to tokens to AST, or a laid-out token list to AST.
SpecSyntax == (InitScan \/ InitParse) /\ [][NextScan]_vars

(***************************************************************************)
(* Programs the analyzer is run on, built with the AST builders: every     *)
(* body of at most MaxStatements statements of TopStatements, and the      *)
(* bodies of SampleBodies.  A later call on the same analyzer gets one of  *)
(* FollowUpBodies.                                                         *)
(***************************************************************************)
NumberLiteral(digit) ==
    createLiteral([t |-> "number", v |-> Number(<<digit>>)], <<digit>>)

BooleanLiteral ==
    createLiteral([t |-> "boolean", v |-> TRUE], <<"t", "r", "u", "e">>)

\* let name = 1;  or  const name = 1;
Declare(kind, name) ==
    createVariableDeclaration(kind, createIdentifier(name), NumberLiteral("1"))

\* name;
Use(name) == createExpressionStatement(createIdentifier(name))

\* name = 2;
Assign(name) ==
    createExpressionStatement(
        createAssignmentExpression(createIdentifier(name), "EQUAL",
                                   NumberLiteral("2")))

Block(body) == createBlockStatement(body)

\* for (let name = 1; ; ) body
ForDeclaring(name, body) ==
    createForStatement(Declare("let", name), NULL, NULL, body)

\* A node of a kind analyzeStatement has no case for.
UnknownStatement == [type |-> "DebuggerStatement"]

Names == {<<"x">>}

TopStatements ==
    UNION {{Declare("let", n), Declare("const", n), Use(n), Assign(n),
            createVariableDeclaration("let", createIdentifier(n), NULL),
            Block(<<Declare("let", n)>>),
            Block(<<Use(n)>>),
            Block(<<Assign(n)>>),
            Block(<<Block(<<Use(n)>>)>>),
            Block(<<Block(<<Assign(n)>>)>>),
            Block(<<Declare("let", n), Assign(n)>>),
            Block(<<Declare("const", n), Assign(n)>>),
            Block(<<Declare("let", n), Declare("const", n)>>),
            ForDeclaring(n, Block(<<Use(n)>>)),
            createWhileStatement(createIdentifier(n), createBreakStatement)}
           : n \in Names}
    \cup {createBreakStatement, createContinueStatement, UnknownStatement}

SampleBodies ==
    { \* const x = 1; x = 2; break;
      <<Declare("const", <<"x">>), Assign(<<"x">>), createBreakStatement>>,
      \* x = 2; let x = 1; const y = 1; y = 2; break;
      <<Assign(<<"x">>), Declare("let", <<"x">>), Declare("const", <<"y">>),
        Assign(<<"y">>), createBreakStatement>>,
      \* x; y = 2; break;
      <<Use(<<"x">>), Assign(<<"y">>), createBreakStatement>>,
      \* let x = 1; { let y = 1; { x; y; } } y;
      <<Declare("let", <<"x">>),
        Block(<<Declare("let", <<"y">>),
                Block(<<Use(<<"x">>), Use(<<"y">>)>>)>>),
        Use(<<"y">>)>>,
      \* let x = "s"; x = 2; if (x < 1) { x = -x; } else continue;
      <<createVariableDeclaration("let", createIdentifier(<<"x">>),
            createLiteral([t |-> "string", v |-> <<"s">>], <<"\"", "s", "\"">>)),
        Assign(<<"x">>),
        createIfStatement(
            createBinaryExpression(createIdentifier(<<"x">>), "LESS",
                                   NumberLiteral("1")),
            Block(<<createExpressionStatement(
                        createAssignmentExpression(createIdentifier(<<"x">>),
                            "EQUAL",
                            createUnaryExpression("MINUS",
                                createIdentifier(<<"x">>))))>>),
            createContinueStatement)>>,
      \* function f(a, a) { return a || (f(1)); } f(f); x(1 + true);
      <<createFunctionDeclaration(createIdentifier(<<"f">>),
            <<createIdentifier(<<"a">>), createIdentifier(<<"a">>)>>,
            Block(<<createReturnStatement(
                        createLogicalExpression(createIdentifier(<<"a">>), "OR",
                            createGroupingExpression(
                                createCallExpression(createIdentifier(<<"f">>),
                                    <<NumberLiteral("1")>>))))>>)),
        createExpressionStatement(
            createCallExpression(createIdentifier(<<"f">>),
                                 <<createIdentifier(<<"f">>)>>)),
        createExpressionStatement(
            createCallExpression(createIdentifier(<<"x">>),
                <<createBinaryExpression(NumberLiteral("1"), "PLUS",
                                         BooleanLiteral)>>))>>,
      \* for (;;) { this; }  return;
      <<createForStatement(NULL, NULL, NULL,
            Block(<<createExpressionStatement([type |-> "ThisExpression"])>>)),
        createReturnStatement(NULL)>> }

\* while (true) body
WhileTrue(body) == createWhileStatement(BooleanLiteral, body)

\* for (;;) body
ForEver(body) == createForStatement(NULL, NULL, NULL, body)

\* Programs whose only possible violations are misplaced break and continue.
ControlFlowBodies ==
    { \* while (true) { if (true) break; else { continue; } }
      <<WhileTrue(Block(<<createIfStatement(BooleanLiteral, createBreakStatement,
                              Block(<<createContinueStatement>>))>>))>>,
      \* if (true) break; else continue;
      <<createIfStatement(BooleanLiteral, createBreakStatement,
                          createContinueStatement)>>,
      \* for (;;) continue;  break;
      <<ForEver(createContinueStatement), createBreakStatement>>,
      \* { while (true) {} continue; }  { break; }
      <<Block(<<WhileTrue(Block(<<>>)), createContinueStatement>>),
        Block(<<createBreakStatement>>)>>,
      \* while (true) { for (;;) break; continue; }  continue;
      <<WhileTrue(Block(<<ForEver(createBreakStatement),
                          createContinueStatement>>)),
        createContinueStatement>>,
      \* for (;;) { { if (true) { continue; } } break; }
      <<ForEver(Block(<<Block(<<createIfStatement(BooleanLiteral,
                                    Block(<<createContinueStatement>>), NULL)>>),
                        createBreakStatement>>))>>,
      \* while (true) { function f() { break; } }  function g() { continue; }
      <<WhileTrue(Block(<<createFunctionDeclaration(createIdentifier(<<"f">>),
                              <<>>, Block(<<createBreakStatement>>))>>)),
        createFunctionDeclaration(createIdentifier(<<"g">>), <<>>,
            Block(<<createContinueStatement>>))>> }

\* name(argument);
Call(name, argument) ==
    createExpressionStatement(
        createCallExpression(createIdentifier(name),
                             <<createIdentifier(argument)>>))

\* function f(parameters) { body }
FunctionF(parameters, body) ==
    createFunctionDeclaration(createIdentifier(<<"f">>),
        [i \in 1..Len(parameters) |-> createIdentifier(parameters[i])],
        Block(body))

ParameterLists == {<<>>, <<<<"a">>>>, <<<<"a">>, <<"a">>>>, <<<<"a">>, <<"b">>>>}

FunctionBodyLists ==
    {<<>>,
     <<Declare("let", <<"a">>)>>,
     <<Declare("let", <<"b">>), Use(<<"b">>)>>,
     <<Declare("let", <<"b">>), Declare("let", <<"b">>)>>,
     <<Use(<<"a">>)>>,
     <<Call(<<"f">>, <<"a">>)>>,
     <<Block(<<Declare("let", <<"a">>)>>)>>}

FunctionDeclarations ==
    {FunctionF(parameters, body) :
        parameters \in ParameterLists, body \in FunctionBodyLists}

\* Programs with one function declaration, a statement before it or a
\* statement after it.
FunctionBodies ==
    {<<fd>> : fd \in FunctionDeclarations}
        \cup {<<before, fd>> :
                 before \in {Declare("let", <<"f">>), FunctionF(<<>>, <<>>)},
                 fd \in FunctionDeclarations}
        \cup {<<fd, after>> :
                 fd \in FunctionDeclarations,
                 after \in {Use(<<"a">>), Use(<<"b">>), Use(<<"f">>),
                            Declare("let", <<"f">>)}}

\* Operands of each type: four literals, a variable declared without
\* initializer, and the result of a call.
TypedOperands ==
    {NumberLiteral("1"),
     createLiteral([t |-> "string", v |-> <<"s">>], <<"\"", "s", "\"">>),
     BooleanLiteral,
     createLiteral([t |-> "null"], <<"n", "u", "l", "l">>),
     createIdentifier(<<"u">>),
     createCallExpression(createIdentifier(<<"p">>), <<>>)}

BinaryOperatorTypes ==
    {"PLUS", "MINUS", "STAR", "SLASH", "PERCENT", "LESS", "LESS_EQUAL",
     "GREATER", "GREATER_EQUAL", "EQUAL_EQUAL", "BANG_EQUAL"}

\* let r = left operator right;
TypedDeclarations ==
    {createVariableDeclaration("let", createIdentifier(<<"r">>),
         createBinaryExpression(left, operator, right)) :
        left \in TypedOperands, operator \in BinaryOperatorTypes,
        right \in TypedOperands}

\* function p() {}  let u;
TypedPrelude ==
    <<createFunctionDeclaration(createIdentifier(<<"p">>), <<>>, Block(<<>>)),
      createVariableDeclaration("let", createIdentifier(<<"u">>), NULL)>>

\* function p() {}  let u;  let r = left operator right;
TypedBodies == {TypedPrelude \o <<declaration>> : declaration \in TypedDeclarations}

\* Statements that raise in analyzeStatement: an assignment to the const k,
\* a statement and an expression of kinds the analyzer has no case for.
Throwers ==
    {Assign(<<"k">>), UnknownStatement,
     createExpressionStatement([type |-> "ThisExpression"])}

\* A statement inside the constructs that set the scope or the loop depth.
Wrap(kind, stmt) ==
    CASE kind = "block" -> Block(<<stmt>>)
      [] kind = "while" -> WhileTrue(Block(<<stmt>>))
      [] kind = "whileBare" -> WhileTrue(stmt)
      [] kind = "for" -> ForEver(Block(<<stmt>>))
      [] kind = "forInit" -> createForStatement(stmt, NULL, NULL, Block(<<>>))
      [] kind = "function" -> FunctionF(<<<<"a">>>>, <<stmt>>)
      [] kind = "deep" ->
             WhileTrue(Block(<<ForEver(Block(<<FunctionF(<<>>,
                 <<WhileTrue(stmt)>>)>>))>>))

WrapKinds == {"block", "while", "whileBare", "for", "forInit", "function", "deep"}

\* const k = 1;  and a statement that raises inside a construct.
AbortBodies ==
    {<<Declare("const", <<"k">>), Wrap(kind, thrower)>> :
        kind \in WrapKinds, thrower \in Throwers}

\* function p() {}  let u;  let v [= initializer];  v = value;  v - 1;
RetypeBody(initializer, value) ==
    TypedPrelude \o
        <<createVariableDeclaration("let", createIdentifier(<<"v">>), initializer),
          createExpressionStatement(
              createAssignmentExpression(createIdentifier(<<"v">>), "EQUAL", value)),
          createExpressionStatement(
              createBinaryExpression(createIdentifier(<<"v">>), "MINUS",
                                     NumberLiteral("1")))>>

RetypeBodies ==
    {RetypeBody(initializer, value) :
        initializer \in TypedOperands \cup {NULL}, value \in TypedOperands}

\* function f() { signal }, the signal bare, in a block or in an if.
FunctionWith(signal, wrap) ==
    FunctionF(<<>>,
        <<CASE wrap = "bare" -> signal
            [] wrap = "block" -> Block(<<signal>>)
            [] wrap = "if" -> createIfStatement(BooleanLiteral, signal, NULL)>>)

\* The function where a loop is around its declaration, or none.
Around(loop, stmt) ==
    CASE loop = "while" -> WhileTrue(Block(<<stmt>>))
      [] loop = "for" -> ForEver(Block(<<Block(<<stmt>>)>>))
      [] loop = "none" -> stmt

LoopFunctionCases ==
    [loop : {"while", "for", "none"},
     signal : {createBreakStatement, createContinueStatement},
     wrap : {"bare", "block", "if"}]

LoopFunctionBody(case) ==
    <<Around(case.loop, FunctionWith(case.signal, case.wrap))>>

LoopFunctionBodies == {LoopFunctionBody(case) : case \in LoopFunctionCases}

\* let x = x;
SelfDeclaration ==
    createVariableDeclaration("let", createIdentifier(<<"x">>),
                              createIdentifier(<<"x">>))

\* let x = x;      { let x = x; }      let x = 1; let x = x;
\* const x = 1; { let x = x; x = 2; } x = 2;
SelfAnalyzeBodies ==
    {<<SelfDeclaration>>,
     <<Block(<<SelfDeclaration>>)>>,
     <<Declare("let", <<"x">>), SelfDeclaration>>,
     <<Declare("const", <<"x">>), Block(<<SelfDeclaration, Assign(<<"x">>)>>),
       Assign(<<"x">>)>>}

MaxStatements == 2

Bodies ==
    UNION {[1..n -> TopStatements] : n \in 0..MaxStatements}
        \cup SampleBodies \cup ControlFlowBodies \cup FunctionBodies
        \cup TypedBodies \cup AbortBodies \cup RetypeBodies
        \cup LoopFunctionBodies \cup SelfAnalyzeBodies

FollowUpBodies ==
    {<<>>, <<Declare("let", <<"x">>)>>, <<Use(<<"x">>)>>, <<Assign(<<"x">>)>>,
     <<createBreakStatement>>}

MaxAnalyzeCalls == 2

(***************************************************************************)
(* The analyzer as a state machine: new SemanticAnalyzer(), then calls of  *)
(* analyze(program), one step per iteration of its loop over the body.     *)
(***************************************************************************)
InitAnalyze ==
    /\ ScannerIdle
    /\ ParserIdle
    /\ program = NoProgram
    /\ analyzer = NewSemanticAnalyzer
    /\ stmtIndex = 0
    /\ analyzePc = "idle"
    /\ analysisResult = NoResult
    /\ analyzeCalls = 0
    /\ InterpreterIdle

\* An analyze that starts from a new global scope.
AnalyzeCallFresh ==
    /\ analyzePc \in {"idle", "returned", "caught"}
    /\ analyzeCalls < MaxAnalyzeCalls
    /\ \E body \in IF analyzeCalls = 0 THEN Bodies ELSE FollowUpBodies :
           program' = createProgram(body)
    /\ analyzer' = NewSemanticAnalyzer
    /\ stmtIndex' = 0
    /\ analyzePc' = "loop"
    /\ analysisResult' = NoResult
    /\ analyzeCalls' = analyzeCalls + 1
    /\ UNCHANGED <<scanVars, parseVars, executeVars>>

\* analyze(program) is called: `this.errors = []`.
AnalyzeCall ==
    /\ analyzePc \in {"idle", "returned", "caught"}
    /\ analyzeCalls < MaxAnalyzeCalls
    /\ \E body \in IF analyzeCalls = 0 THEN Bodies ELSE FollowUpBodies :
           program' = createProgram(body)
    /\ analyzer' = [analyzer EXCEPT !.errors = <<>>]
    /\ stmtIndex' = 0
    /\ analyzePc' = "loop"
    /\ analysisResult' = NoResult
    /\ analyzeCalls' = analyzeCalls + 1
    /\ UNCHANGED <<scanVars, parseVars, executeVars>>

\* One iteration of `for (const statement of program.body)`: the statement
\* is analyzed, or what it raised lands in analyze()'s catch block.
AnalyzeIteration ==
    /\ analyzePc = "loop"
    /\ stmtIndex < Len(program.body)
    /\ LET r == analyzeStatement(program.body[stmtIndex + 1], analyzer) IN
       IF r.ok
       THEN /\ analyzer' = r.a
            /\ stmtIndex' = stmtIndex + 1
            /\ analyzePc' = "loop"
            /\ analysisResult' = analysisResult
       ELSE /\ analyzer' = [r.a EXCEPT !.errors = analyzeCatch(r.a, r.error).errors]
            /\ stmtIndex' = stmtIndex
            /\ analyzePc' = "caught"
            /\ analysisResult' = analyzeCatch(r.a, r.error)
    /\ UNCHANGED <<scanVars, parseVars, program, analyzeCalls, executeVars>>

\* The loop is through: analyze() returns its report.
AnalyzeReturn ==
    /\ analyzePc = "loop"
    /\ stmtIndex = Len(program.body)
    /\ analysisResult' = analyzeReturn(analyzer)
    /\ analyzePc' = "returned"
    /\ UNCHANGED <<scanVars, parseVars, program, analyzer, stmtIndex, analyzeCalls, executeVars>>

NextAnalyze == AnalyzeCall \/ AnalyzeIteration \/ AnalyzeReturn

SpecAnalyze == InitAnalyze /\ [][NextAnalyze]_vars

(***************************************************************************)
(* Programs the interpreter is run on: every body of at most MaxStatements *)
(* statements of ExecuteStatements, and the bodies written for the         *)
(* properties below.  All of them end: a loop counts up to a literal.      *)
(***************************************************************************)
Number1(n) == createLiteral([t |-> "number", v |-> JsInteger(n)], DigitsOf(n))

StringLiteral(chars) ==
    createLiteral([t |-> "string", v |-> chars], <<"\"">> \o chars \o <<"\"">>)

FalseLiteral ==
    createLiteral([t |-> "boolean", v |-> FALSE], <<"f", "a", "l", "s", "e">>)

NullLiteral == createLiteral([t |-> "null"], <<"n", "u", "l", "l">>)

Var(name) == createIdentifier(<<name>>)

\* let name = value;
Let(name, value) == createVariableDeclaration("let", Var(name), value)

\* name = value
Set(name, value) == createAssignmentExpression(Var(name), "EQUAL", value)

\* name = name + 1
Increment(name) ==
    Set(name, createBinaryExpression(Var(name), "PLUS", Number1(1)))

\* expression;
Do(expression) == createExpressionStatement(expression)

\* left < right
Less(left, right) == createBinaryExpression(left, "LESS", right)

\* left == right
Equals(left, right) == createBinaryExpression(left, "EQUAL_EQUAL", right)

ExecuteStatements ==
    {Let("x", Number1(1)),
     Let("x", NULL),
     Do(Var("x")),
     Do(Set("x", Number1(2))),
     Do(Increment("x")),
     Block(<<Let("x", Number1(3)), Do(Var("x"))>>),
     Block(<<Do(Set("x", Number1(4)))>>),
     createIfStatement(Var("x"), Do(StringLiteral(<<"s">>)), Do(NullLiteral)),
     createWhileStatement(Less(Var("x"), Number1(3)), Do(Increment("x"))),
     createForStatement(Let("i", Number1(0)), Less(Var("i"), Number1(2)),
                        Increment("i"), Block(<<Do(Var("i"))>>)),
     createBreakStatement,
     createReturnStatement(Var("x")),
     UnknownStatement}

ExecuteSamples ==
    { \* function f(a) { return a; }  f(1);
      <<createFunctionDeclaration(Var("f"), <<Var("a")>>,
            Block(<<createReturnStatement(Var("a"))>>)),
        Do(createCallExpression(Var("f"), <<Number1(1)>>))>>,
      \* f(1);
      <<Do(createCallExpression(Var("f"), <<Number1(1)>>))>>,
      \* "a" + 1 + null;  -(true) * 2 / 0 % 3 <= (1 != "1");  !x >= 1 > 0;  this;
      <<Do(createBinaryExpression(
               createBinaryExpression(StringLiteral(<<"a">>), "PLUS", Number1(1)),
               "PLUS", NullLiteral)),
        Do(createBinaryExpression(
               createBinaryExpression(
                   createBinaryExpression(
                       createBinaryExpression(
                           createUnaryExpression("MINUS",
                               createGroupingExpression(BooleanLiteral)),
                           "STAR", Number1(2)),
                       "SLASH", Number1(0)),
                   "PERCENT", Number1(3)),
               "LESS_EQUAL",
               createGroupingExpression(
                   createBinaryExpression(Number1(1), "BANG_EQUAL",
                                          StringLiteral(<<"1">>))))),
        Let("x", NULL),
        Do(createBinaryExpression(
               createBinaryExpression(createUnaryExpression("BANG", Var("x")),
                                      "GREATER_EQUAL", Number1(1)),
               "GREATER", Number1(0))),
        Do(createBinaryExpression(Number1(6), "SLASH", Number1(3))),
        Do(createBinaryExpression(Number1(7), "MINUS", Number1(9))),
        Do([type |-> "ThisExpression"])>> }

\* let c = 0; let u = 0; let b = 0; let r = 0; let s = 0;
Counters ==
    <<Let("c", Number1(0)), Let("u", Number1(0)), Let("b", Number1(0)),
      Let("r", Number1(0)), Let("s", Number1(0))>>

\* What stands in the middle of the counting loop's body: nothing much, a
\* signal, or a signal in the k-th iteration only, inside a block of an if.
Signal(kind, k) ==
    CASE kind = "none" -> Do(NullLiteral)
      [] kind = "continue" -> createContinueStatement
      [] kind = "break" -> createBreakStatement
      [] kind = "continueAt" ->
             createIfStatement(Equals(Var("b"), Number1(k)),
                               Block(<<createContinueStatement>>), NULL)
      [] kind = "breakAt" ->
             createIfStatement(Equals(Var("b"), Number1(k)),
                               Block(<<createBreakStatement>>), NULL)

\* for (; (s = u) < 0 || (c = c + 1) < limit; u = u + 1) {
\*     b = b + 1;  signal  r = r + 1;
\* }
\* c counts the tests of the condition, u the updates, b the entries of the
\* body and r the times the end of the body was reached; s is u as the last
\* test of the condition found it.
ForCounting(limit, kind, k) ==
    createForStatement(NULL,
        createLogicalExpression(
            Less(createGroupingExpression(Set("s", Var("u"))), Number1(0)),
            "OR",
            Less(createGroupingExpression(Increment("c")), Number1(limit))),
        Increment("u"),
        Block(<<Do(Increment("b")), Signal(kind, k), Do(Increment("r"))>>))

MaxLimit == 3

ForCases ==
    [limit : 1..MaxLimit, kind : {"none", "continue", "break"}, k : {1}]
        \cup [limit : 1..MaxLimit, kind : {"continueAt", "breakAt"},
              k : 1..(MaxLimit - 1)]

ForBodies ==
    {Counters \o <<ForCounting(case.limit, case.kind, case.k)>> : case \in ForCases}

\* for (let i = 0; i < 2; i = i + 1) body
Twice(body) ==
    createForStatement(Let("i", Number1(0)), Less(Var("i"), Number1(2)),
                       Increment("i"), body)

\* Statements that make scopes and leave them in every way: by coming to
\* their end, by a break, continue or return passing through, by an error.
ScopeStatements ==
    {Block(<<>>),
     Block(<<Block(<<>>)>>),
     Block(<<Block(<<>>), Let("x", Number1(1)), Block(<<Do(Var("x"))>>)>>),
     ForEver(createBreakStatement),
     ForEver(Block(<<createBreakStatement, Block(<<>>)>>)),
     Block(<<Twice(Block(<<>>))>>),
     Twice(Block(<<Block(<<createContinueStatement>>), Block(<<>>)>>)),
     Block(<<Do(Var("y")), Block(<<>>)>>),
     Block(<<Block(<<createReturnStatement(NULL)>>)>>),
     Block(<<createContinueStatement>>),
     ForEver(Block(<<Block(<<Do(Var("z"))>>)>>)),
     WhileTrue(Block(<<Block(<<createBreakStatement>>)>>)),
     createIfStatement(BooleanLiteral, Block(<<>>), Block(<<Block(<<>>)>>)),
     createIfStatement(FalseLiteral, Block(<<>>), Block(<<Block(<<>>)>>))}

ScopeBodies ==
    {<<stmt>> : stmt \in ScopeStatements}
        \cup {<<first, second>> : first \in ScopeStatements,
                                  second \in ScopeStatements}

\* { [let x = 3;]  { [let x = 5;]  x = 7; } }
\* with the declaration of the middle and of the inner block there or not.
Nest(middle, inner) ==
    Block((IF middle THEN <<Let("x", Number1(3))>> ELSE <<>>)
          \o <<Block((IF inner THEN <<Let("x", Number1(5))>> ELSE <<>>)
                     \o <<Do(Set("x", Number1(7)))>>)>>)

AssignCases == [global : BOOLEAN, middle : BOOLEAN, inner : BOOLEAN]

\* let y = 1;  [let x = 1;]  { ... { ... x = 7; } }  x;
AssignBody(case) ==
    <<Let("y", Number1(1))>>
        \o (IF case.global THEN <<Let("x", Number1(1))>> ELSE <<>>)
        \o <<Nest(case.middle, case.inner), Do(Var("x"))>>

AssignBodies == {AssignBody(case) : case \in AssignCases}

\* Statements with and without expression statements that get executed.
LastStatements ==
    {Do(Number1(1)),
     Do(StringLiteral(<<"s">>)),
     Do(Var("x")),
     Let("x", NULL),
     Let("x", BooleanLiteral),
     Block(<<Do(NullLiteral), Let("z", Number1(2))>>),
     Block(<<Let("z", Number1(2))>>),
     createIfStatement(BooleanLiteral, Do(Number1(3)), Do(Number1(4))),
     createIfStatement(FalseLiteral, Do(Number1(3)), NULL),
     createWhileStatement(FalseLiteral, Do(Number1(5))),
     Twice(Block(<<Block(<<Do(Number1(6))>>)>>))}

LastBodies == UNION {[1..n -> LastStatements] : n \in 0..MaxStatements}

TruthyOperands == {BooleanLiteral, Number1(1), StringLiteral(<<"s">>)}

FalsyOperands ==
    {FalseLiteral, Number1(0), StringLiteral(<<>>), NullLiteral, Var("u")}

RightOperands == {Number1(9), FalseLiteral, StringLiteral(<<>>)}

\* let a = 0;  let u;  left operator (a = right);
LogicalBody(left, operator, right) ==
    <<Let("a", Number1(0)), Let("u", NULL),
      Do(createLogicalExpression(left, operator,
             createGroupingExpression(Set("a", right))))>>

LogicalBodies ==
    {LogicalBody(left, operator, right) :
        left \in TruthyOperands \cup FalsyOperands, operator \in {"AND", "OR"},
        right \in RightOperands}

\* let o = 0; let n = 0; let a = 0; let p = 0;
NestedCounters ==
    <<Let("o", Number1(0)), Let("n", Number1(0)), Let("a", Number1(0)),
      Let("p", Number1(0))>>

\* A break or continue inside blocks and if statements, with statements
\* after it in each block it stands in.
Wrapped(signal, wrap) ==
    CASE wrap = "block" -> Block(<<signal, Do(Increment("a"))>>)
      [] wrap = "if" -> createIfStatement(BooleanLiteral, signal, NULL)
      [] wrap = "ifBlock" ->
             createIfStatement(BooleanLiteral,
                 Block(<<Block(<<signal, Do(Increment("a"))>>),
                         Do(Increment("a"))>>),
                 NULL)
      [] wrap = "else" ->
             createIfStatement(FalseLiteral, Do(NullLiteral),
                               Block(<<signal, Do(Increment("a"))>>))

\* { let t = 0;  n = n + 1;  wrapped signal  a = a + 1; }
InnerBody(signal, wrap) ==
    Block(<<Let("t", Number1(0)), Do(Increment("n")), Wrapped(signal, wrap),
            Do(Increment("a"))>>)

\* while (n < o + o) body     or     for (let i = 0; i < 2; i = i + 1) body
InnerLoop(loop, body) ==
    IF loop = "while"
    THEN createWhileStatement(
             Less(Var("n"), createBinaryExpression(Var("o"), "PLUS", Var("o"))),
             body)
    ELSE Twice(body)

\* while (o < limit) { o = o + 1;  inner loop  p = p + 1;  let m = 0; }
NestedLoops(case) ==
    createWhileStatement(Less(Var("o"), Number1(case.limit)),
        Block(<<Do(Increment("o")),
                InnerLoop(case.loop,
                    InnerBody(IF case.signal = "break" THEN createBreakStatement
                              ELSE createContinueStatement, case.wrap)),
                Do(Increment("p")),
                Let("m", Number1(0))>>))

MaxOuter == 2

NestedCases ==
    [limit : 1..MaxOuter, loop : {"while", "for"}, signal : {"break", "continue"},
     wrap : {"block", "if", "ifBlock", "else"}]

NestedBodies == {NestedCounters \o <<NestedLoops(case)>> : case \in NestedCases}

\* kind k = value;
DeclareK(kind, value) == createVariableDeclaration(kind, Var("k"), value)

KValues == {Number1(2), StringLiteral(<<"s">>), NullLiteral}

\* A declaration of k, then an assignment to k or a second declaration of
\* k in the same scope, then k read:
\*     kind k = 1;  k = value;  k;
\*     kind k = 1;  { k = value; }  k;
\*     kind k = 1;  kind2 k = value;  k;
ConstBodies ==
    {<<DeclareK(kind, Number1(1)), Do(Set("k", value)), Do(Var("k"))>> :
        kind \in {"let", "const"}, value \in KValues}
    \cup {<<DeclareK(kind, Number1(1)), Block(<<Do(Set("k", value))>>),
            Do(Var("k"))>> :
             kind \in {"let", "const"}, value \in KValues}
    \cup UNION {{<<DeclareK(kind, Number1(1)), DeclareK(kind2, value),
                   Do(Var("k"))>> : kind \in {"let", "const"},
                                    kind2 \in {"let", "const"}}
                : value \in KValues}

\* A statement inside constructs that intercept none of the signals it
\* raises: blocks and if statements, and for a return also loops.
Unguarded(kind, stmt) ==
    CASE kind = "bare" -> stmt
      [] kind = "block" -> Block(<<stmt, Do(Set("x", Number1(8)))>>)
      [] kind = "blocks" -> Block(<<Block(<<Block(<<stmt>>)>>)>>)
      [] kind = "if" -> createIfStatement(BooleanLiteral, Block(<<stmt>>), NULL)
      [] kind = "while" -> WhileTrue(Block(<<stmt>>))
      [] kind = "for" -> Twice(Block(<<Block(<<stmt>>)>>))

EscapeCases ==
    [kind : {"bare", "block", "blocks", "if"},
     signal : {createBreakStatement, createContinueStatement,
               createReturnStatement(NULL), createReturnStatement(Var("x"))}]
    \cup [kind : {"while", "for"},
          signal : {createReturnStatement(NULL), createReturnStatement(Var("x"))}]

\* let x = 1;  the signal with nothing to intercept it  x = 9;
EscapeBody(case) ==
    <<Let("x", Number1(1)), Unguarded(case.kind, case.signal),
      Do(Set("x", Number1(9)))>>

EscapeBodies == {EscapeBody(case) : case \in EscapeCases}

\* let x = x;      { let x = x; }      let x = 1; let x = x; x;
\* let x = 1; { let x = x; x = x + 1; x; } x;
SelfExecuteBodies ==
    {<<SelfDeclaration>>,
     <<Block(<<SelfDeclaration>>)>>,
     <<Let("x", Number1(1)), SelfDeclaration, Do(Var("x"))>>,
     <<Let("x", Number1(1)),
       Block(<<SelfDeclaration, Do(Increment("x")), Do(Var("x"))>>),
       Do(Var("x"))>>}

ExecuteBodies ==
    UNION {[1..n -> ExecuteStatements] : n \in 0..MaxStatements}
        \cup ExecuteSamples \cup ForBodies \cup ScopeBodies \cup AssignBodies
        \cup LastBodies \cup LogicalBodies \cup NestedBodies
        \cup ConstBodies \cup EscapeBodies \cup SelfExecuteBodies

ExecuteFollowUpBodies ==
    {<<>>, <<Do(Var("x"))>>, <<Let("x", Number1(5))>>, <<Do(Increment("x"))>>}

MaxExecuteCalls == 2

(***************************************************************************)
(* The interpreter as a state machine: new Interpreter(), then calls of    *)
(* execute(program), one step per iteration of its loop over the body.     *)
(***************************************************************************)
InitExecute ==
    /\ ScannerIdle
    /\ ParserIdle
    /\ AnalyzerIdle
    /\ interpreter = NewInterpreter
    /\ ast = NoProgram
    /\ execIndex = 0
    /\ executePc = "idle"
    /\ executeResult = NoResult
    /\ executeCalls = 0

\* execute(program) is called: `this.lastValue = createUndefinedValue()`.
ExecuteCall ==
    /\ executePc \in {"idle", "returned", "raised"}
    /\ executeCalls < MaxExecuteCalls
    /\ \E body \in IF executeCalls = 0 THEN ExecuteBodies
                    ELSE ExecuteFollowUpBodies :
           ast' = createProgram(body)
    /\ interpreter' = [interpreter EXCEPT !.lastValue = createUndefinedValue]
    /\ execIndex' = 0
    /\ executePc' = "loop"
    /\ executeResult' = NoResult
    /\ executeCalls' = executeCalls + 1
    /\ UNCHANGED <<scanVars, parseVars, analyzeVars>>

\* An execute that takes a break, continue or return reaching it for the
\* end of the statement.
ExecuteIterationSwallowing ==
    /\ executePc = "loop"
    /\ execIndex < Len(ast.body)
    /\ LET r == executeStatement(ast.body[execIndex + 1], interpreter) IN
       /\ interpreter' = r.i
       /\ IF r.ok \/ r.error.name # "Error"
          THEN /\ execIndex' = execIndex + 1
               /\ executePc' = "loop"
               /\ executeResult' = executeResult
          ELSE /\ execIndex' = execIndex
               /\ executePc' = "raised"
               /\ executeResult' = [raised |-> r.error]
    /\ UNCHANGED <<scanVars, parseVars, analyzeVars, ast, executeCalls>>

\* One iteration of `for (const statement of program.body)`: the statement
\* is executed, or what it raised leaves execute.
ExecuteIteration ==
    /\ executePc = "loop"
    /\ execIndex < Len(ast.body)
    /\ LET r == executeStatement(ast.body[execIndex + 1], interpreter) IN
       /\ interpreter' = r.i
       /\ IF r.ok
          THEN /\ execIndex' = execIndex + 1
               /\ executePc' = "loop"
               /\ executeResult' = executeResult
          ELSE /\ execIndex' = execIndex
               /\ executePc' = "raised"
               /\ executeResult' = [raised |-> r.error]
    /\ UNCHANGED <<scanVars, parseVars, analyzeVars, ast, executeCalls>>

\* The loop is through: `return this.lastValue`.
ExecuteReturn ==
    /\ executePc = "loop"
    /\ execIndex = Len(ast.body)
    /\ executeResult' = [returned |-> interpreter.lastValue]
    /\ executePc' = "returned"
    /\ UNCHANGED <<scanVars, parseVars, analyzeVars, interpreter, ast,
                   execIndex, executeCalls>>

NextExecute == ExecuteCall \/ ExecuteIteration \/ ExecuteReturn

SpecExecute == InitExecute /\ [][NextExecute]_vars

(***************************************************************************)
(* An AST given to an analyzer, or to an interpreter.                      *)
(***************************************************************************)
NextSemantics ==
    \/ AnalyzeCall
    \/ AnalyzeIteration
    \/ AnalyzeReturn
    \/ ExecuteCall
    \/ ExecuteIteration
    \/ ExecuteReturn

SpecSemantics == (InitAnalyze \/ InitExecute) /\ [][NextSemantics]_vars

(***************************************************************************)
(* Properties of the scanner.                                              *)
(***************************************************************************)
RECURSIVE Flatten(_)
Flatten(seqs) == IF seqs = <<>> THEN <<>> ELSE Head(seqs) \o Flatten(Tail(seqs))

TokenValues(list) == [i \in 1..Len(list) |-> list[i].value]

\* A character that is neither white space nor a string delimiter.
IsText(char) == char \notin Whitespace \cup {"\"", "'"}

\* The tokens' lexemes, in list order, spell the source's text.
SourceOrderKept ==
    /\ SelectSeq(Flatten(TokenValues(tokenList)), IsText)
           = SelectSeq(scanner.source, IsText)
    /\ \A i, j \in 1..Len(tokenList) :
           i < j => \/ tokenList[i].line < tokenList[j].line
                    \/ /\ tokenList[i].line = tokenList[j].line
                       /\ tokenList[i].column <= tokenList[j].column

\* Outside string literals no token carries white space, and only a string
\* literal and EOF have an empty lexeme.
NoWhitespaceToken ==
    \A i \in 1..Len(tokenList) :
        /\ tokenList[i].type # "STRING" =>
               \A k \in 1..Len(tokenList[i].value) :
                   tokenList[i].value[k] \notin Whitespace
        /\ tokenList[i].type \notin {"STRING", "EOF"} => tokenList[i].value # <<>>

SingleTrailingEOF ==
    /\ Len(tokenList) >= 1
    /\ tokenList[Len(tokenList)].type = "EOF"
    /\ \A i \in 1..(Len(tokenList) - 1) : tokenList[i].type # "EOF"

\* C1: whenever scanTokens returns (it did not raise), the token list keeps the
\* source order, has no token for white space, and ends with an EOF token that
\* is its only EOF token; the empty source yields exactly [EOF].
C1_TokenListShape ==
    scanPc = "done" =>
        /\ SourceOrderKept
        /\ NoWhitespaceToken
        /\ SingleTrailingEOF
        /\ scanner.source = <<>> =>
               tokenList = <<[type |-> "EOF", value |-> <<>>, line |-> 0,
                              column |-> 0]>>

\* scanTokens returned three tokens for a source with white space in it.
C1_Witness ==
    /\ scanPc = "done"
    /\ Len(tokenList) = 3
    /\ \E k \in 1..Len(scanner.source) : scanner.source[k] \in Whitespace

Punctuation == {";", "{", "}", ","}

\* C2: the scanner tokenizes `;`, `{`, `}` and `,`: it never rejects one of
\* them, and scanning then parsing `let x = 5;` gives a Program of exactly one
\* VariableDeclaration, `{}` one empty BlockStatement.
C2_PunctuationTokenized ==
    /\ scanPc = "error" =>
           ~(scanError[1] = "Unknown operator: " /\ scanError[2] \in Punctuation)
    /\ scanner.source = <<"l", "e", "t", " ", "x", " ", "=", " ", "5", ";">> =>
           /\ scanPc # "error"
           /\ parsePc = "done" =>
                  /\ Len(parseResult.node.body) = 1
                  /\ parseResult.node.body[1].type = "VariableDeclaration"
    /\ scanner.source = <<"{", "}">> =>
           /\ scanPc # "error"
           /\ parsePc = "done" =>
                  parseResult.node.body = <<createBlockStatement(<<>>)>>

(***************************************************************************)
(* Properties of the expression parser.  They are stated on the outcome of *)
(* parseExpression() for token lists of the shapes  a p b q c  and         *)
(* ( a p b ) q c,  and  left = right.                                      *)
(***************************************************************************)
ExpressionParsed == parsePc \in {"exprDone", "exprError"}

\* The precedence level of a binary operator, lowest first.
Level(operator) ==
    CASE operator = "EQUAL" -> 0
      [] operator = "OR" -> 1
      [] operator = "AND" -> 2
      [] operator \in {"EQUAL_EQUAL", "BANG_EQUAL"} -> 3
      [] operator \in {"LESS", "LESS_EQUAL", "GREATER", "GREATER_EQUAL"} -> 4
      [] operator \in {"PLUS", "MINUS"} -> 5
      [] operator \in {"STAR", "SLASH", "PERCENT"} -> 6

\* The node of `left operator right`.
Infix(left, operator, right) ==
    IF operator = "EQUAL" THEN createAssignmentExpression(left, operator, right)
    ELSE IF operator \in {"OR", "AND"}
    THEN createLogicalExpression(left, operator, right)
    ELSE createBinaryExpression(left, operator, right)

\* The node of an operand token, an identifier or a number.
Operand(token) ==
    IF token.type = "IDENTIFIER" THEN createIdentifier(token.value)
    ELSE createLiteral([t |-> "number", v |-> Number(token.value)], token.value)

IsOperand(token) == token.type \in {"IDENTIFIER", "NUMBER"}

TokenTypes(tokens) == [i \in 1..Len(tokens) |-> tokens[i].type]

\* The parser's tokens are  a p b q c EOF  (a an identifier when p is `=`).
FlatShape ==
    /\ Len(parser.tokens) = 6
    /\ IsOperand(parser.tokens[1]) /\ parser.tokens[2].type \in InfixOperators
    /\ parser.tokens[2].type = "EQUAL" => parser.tokens[1].type = "IDENTIFIER"
    /\ IsOperand(parser.tokens[3]) /\ parser.tokens[4].type \in InfixOperators
    /\ IsOperand(parser.tokens[5])

\* The parser's tokens are  ( a p b ) q c EOF  (a an identifier when p is `=`).
GroupedShape ==
    /\ Len(parser.tokens) = 8
    /\ parser.tokens[1].type = "LPAREN" /\ parser.tokens[5].type = "RPAREN"
    /\ IsOperand(parser.tokens[2]) /\ parser.tokens[3].type \in InfixOperators
    /\ parser.tokens[3].type = "EQUAL" => parser.tokens[2].type = "IDENTIFIER"
    /\ IsOperand(parser.tokens[4]) /\ parser.tokens[6].type \in InfixOperators
    /\ IsOperand(parser.tokens[7])

\* C3: precedence.  With q on a higher level than p,  a p b q c  parses to the
\* node of p whose right child is the node (b q c), and  ( a p b ) q c  to the
\* node of q whose left child is a GroupingExpression of the node (a p b).
C3_Precedence ==
    /\ ExpressionParsed /\ FlatShape
           /\ Level(parser.tokens[4].type) > Level(parser.tokens[2].type) =>
           /\ parsePc = "exprDone"
           /\ parserIsAtEnd(parser)
           /\ parseResult.node =
                  Infix(Operand(parser.tokens[1]), parser.tokens[2].type,
                        Infix(Operand(parser.tokens[3]), parser.tokens[4].type,
                              Operand(parser.tokens[5])))
    /\ ExpressionParsed /\ GroupedShape
           /\ Level(parser.tokens[6].type) > Level(parser.tokens[3].type) =>
           /\ parsePc = "exprDone"
           /\ parserIsAtEnd(parser)
           /\ parseResult.node =
                  Infix(createGroupingExpression(
                            Infix(Operand(parser.tokens[2]), parser.tokens[3].type,
                                  Operand(parser.tokens[4]))),
                        parser.tokens[6].type, Operand(parser.tokens[7]))

\* a + b * 1 has been parsed.
C3_Witness ==
    /\ parsePc = "exprDone" /\ FlatShape
    /\ parser.tokens[2].type = "PLUS" /\ parser.tokens[4].type = "STAR"
    /\ parseResult.node.right.type = "BinaryExpression"

\* C4: left-associativity.  With p and q on one level other than assignment,
\* a p b q c  parses to the node of q whose left child is the node (a p b) and
\* whose right child is c.
C4_LeftAssociative ==
    ExpressionParsed /\ FlatShape
        /\ Level(parser.tokens[2].type) = Level(parser.tokens[4].type)
        /\ Level(parser.tokens[2].type) > 0 =>
        /\ parsePc = "exprDone"
        /\ parserIsAtEnd(parser)
        /\ parseResult.node =
               Infix(Infix(Operand(parser.tokens[1]), parser.tokens[2].type,
                           Operand(parser.tokens[3])),
                     parser.tokens[4].type, Operand(parser.tokens[5]))

\* a * b / 1 has been parsed.
C4_Witness ==
    /\ parsePc = "exprDone" /\ FlatShape
    /\ parser.tokens[2].type = "STAR" /\ parser.tokens[4].type = "SLASH"
    /\ parseResult.node.left.type = "BinaryExpression"

\* The index of the first `=` token, 0 when there is none.
FirstEqual(tokens) ==
    IF \E i \in 1..Len(tokens) : tokens[i].type = "EQUAL"
    THEN CHOOSE i \in 1..Len(tokens) :
             /\ tokens[i].type = "EQUAL"
             /\ \A j \in 1..(i - 1) : tokens[j].type # "EQUAL"
    ELSE 0

TokenWords(tokens) ==
    [i \in 1..Len(tokens) |-> Word(tokens[i].type, tokens[i].value)]

\* The parser's tokens are  left = ...  for a left that parses to a node other
\* than an Identifier.
InvalidTargetShape ==
    /\ FirstEqual(parser.tokens) > 1
    /\ TokenWords(SubSeq(parser.tokens, 1, FirstEqual(parser.tokens) - 1))
           \in AssignmentTargets \ {<<Id("x")>>}

\* What parsing the right-hand side gives: parseAssignment() from the token
\* after the first `=`.
RightHandSide ==
    parseAssignment([tokens |-> parser.tokens,
                     current |-> FirstEqual(parser.tokens)])

\* C5: assignment is right-associative,  x = y = e  parses to
\* Assignment(x, Assignment(y, e)); with a left-hand side that is not an
\* Identifier parsing fails, and it fails with 'Invalid assignment target' at
\* the end of the right-hand side when that parses, with the right-hand
\* side's own error when it does not.
C5_Assignment ==
    /\ ExpressionParsed /\ FlatShape /\ parser.tokens[1].type = "IDENTIFIER"
           /\ parser.tokens[3].type = "IDENTIFIER"
           /\ parser.tokens[2].type = "EQUAL" /\ parser.tokens[4].type = "EQUAL" =>
           /\ parsePc = "exprDone"
           /\ parseResult.node =
                  createAssignmentExpression(Operand(parser.tokens[1]), "EQUAL",
                      createAssignmentExpression(Operand(parser.tokens[3]), "EQUAL",
                          Operand(parser.tokens[5])))
    /\ ExpressionParsed /\ InvalidTargetShape =>
           /\ parsePc = "exprError"
           /\ IF RightHandSide.ok
              THEN /\ parseResult.error =
                          error(previous(RightHandSide.p), "Invalid assignment target")
                   /\ parser.current = RightHandSide.p.current
              ELSE parseResult.error = RightHandSide.error

\* ( x ) = 2 * y  has failed with 'Invalid assignment target' after 2 * y.
C5_Witness ==
    /\ parsePc = "exprError" /\ InvalidTargetShape
    /\ parser.tokens[1].type = "LPAREN"
    /\ parseResult.error[8] = "Invalid assignment target"
    /\ parser.current = FirstEqual(parser.tokens) + 3

\* The token kind each expectation of the parser is about.
Expectation ==
    ("Expected ')' after expression" :> "RPAREN")
    @@ ("Expected ';' after expression" :> "SEMICOLON")
    @@ ("Expected variable name" :> "IDENTIFIER")
    @@ ("Expected ';' after variable declaration" :> "SEMICOLON")
    @@ ("Expected ';' after return value" :> "SEMICOLON")
    @@ ("Expected ';' after 'break'" :> "SEMICOLON")
    @@ ("Expected ';' after 'continue'" :> "SEMICOLON")
    @@ ("Expected '(' after 'if'" :> "LPAREN")
    @@ ("Expected ')' after condition" :> "RPAREN")
    @@ ("Expected '(' after 'while'" :> "LPAREN")
    @@ ("Expected '(' after 'for'" :> "LPAREN")
    @@ ("Expected ';' after loop condition" :> "SEMICOLON")
    @@ ("Expected ')' after for clauses" :> "RPAREN")
    @@ ("Expected '{'" :> "LBRACE")
    @@ ("Expected '}' after block" :> "RBRACE")

ParseRaised == parsePc \in {"error", "exprError"}

\* The parse failed on an expectation of a token kind.
ExpectationFailed ==
    ParseRaised /\ parseResult.error[8] \in DOMAIN Expectation

\* C6: when an expected token kind is not the kind of the current token, the
\* parse ends with `Line {line}:{column} - Error at {description}: {message}`
\* for the line and column of the current token, described as `end of file`
\* when it is EOF and as its lexeme in single quotes otherwise; the current
\* token is still the offending one, and no Program or expression is returned.
C6_ExpectationError ==
    ExpectationFailed =>
        LET token == parserPeek(parser) IN
        /\ token.type # Expectation[parseResult.error[8]]
        /\ parseResult.error =
               <<"Line ", token.line, ":", token.column, " - Error at ",
                 IF token.type = "EOF" THEN <<"end of file">>
                 ELSE <<"'">> \o token.value \o <<"'">>,
                 ": ", parseResult.error[8]>>
        /\ ~parseResult.ok
        /\ "node" \notin DOMAIN parseResult

\* parse() failed on an expectation at a token that is not the first and not
\* EOF.
C6_Witness ==
    /\ parsePc = "error" /\ ExpectationFailed
    /\ parser.current > 0
    /\ parserPeek(parser).type # "EOF"

(***************************************************************************)
(* Properties of the analyzer.  A step property is about one iteration of  *)
(* analyze's loop: the top-level statement it takes, in the global         *)
(* environment as the statements before it left it, and the messages the   *)
(* iteration appended to the errors.                                       *)
(***************************************************************************)
Analyzing == analyzePc = "loop" /\ stmtIndex < Len(program.body)

Statement == program.body[stmtIndex + 1]

NewErrors ==
    SubSeq(analyzer'.errors, Len(analyzer.errors) + 1, Len(analyzer'.errors))

DeclaredGlobally(name) == name \in DOMAIN analyzer.environment.symbols

AnalyzeEnded == analyzePc \in {"returned", "caught"}

Reported(message) ==
    \E i \in 1..Len(analysisResult.errors) : analysisResult.errors[i] = message

NotDefined(name) == <<"Variable '", name, "' is not defined">>

\* A message that says 'already declared' about name.
IsAlreadyDeclared(message, name) ==
    /\ Len(message) >= 3
    /\ message[1] = "Variable '" /\ message[2] = name
    /\ message[3] = "' already declared in this scope at line "

\* A message that says 'Cannot assign to const' about name.
IsConstAssignment(message, name) ==
    /\ Len(message) >= 2
    /\ message[1] = "Cannot assign to const variable '" /\ message[2] = name

UndefinedAssignment(name) == <<"Cannot assign to undefined variable '", name, "'">>

AnalyzedNames == {<<"x">>, <<"y">>}

\* The statement declares name inside it: directly in a block's body, or in
\* a for loop's init clause.
DeclaresInside(stmt, name) ==
    \/ /\ stmt.type = "BlockStatement"
       /\ \E m \in 1..Len(stmt.body) :
              /\ stmt.body[m].type = "VariableDeclaration"
              /\ stmt.body[m].identifier.name = name
    \/ /\ stmt.type = "ForStatement"
       /\ stmt.init.type = "VariableDeclaration"
       /\ stmt.init.identifier.name = name

\* The statement declares name in the scope it is in.
DeclaresHere(stmt, name) ==
    \/ stmt.type = "VariableDeclaration" /\ stmt.identifier.name = name
    \/ stmt.type = "FunctionDeclaration" /\ stmt.name.name = name

\* On a new analyzer: name is declared inside statement i, referenced by the
\* later top-level statement j that analyze has done, and declared by no
\* top-level statement before j.
ReferencedAfterScope(i, j, name) ==
    /\ analyzeCalls = 1
    /\ i < j /\ j <= stmtIndex
    /\ DeclaresInside(program.body[i], name)
    /\ program.body[j] = Use(name)
    /\ \A k \in 1..(j - 1) : ~DeclaresHere(program.body[k], name)

C7_ScopeEnded ==
    \A name \in AnalyzedNames :
        \A i, j \in 1..Len(program.body) :
            ReferencedAfterScope(i, j, name) =>
                \E e \in 1..Len(analyzer.errors) :
                    analyzer.errors[e] = NotDefined(name)

C7_Step ==
    Analyzing =>
        /\ Statement.type \in {"BlockStatement", "ForStatement"} =>
               analyzer'.environment = analyzer.environment
        /\ \A name \in AnalyzedNames :
               \* a reference, at the top or nested, sees the global scope
               /\ Statement \in {Use(name), Block(<<Use(name)>>),
                                 Block(<<Block(<<Use(name)>>)>>)} =>
                      NewErrors = IF DeclaredGlobally(name) THEN <<>>
                                  ELSE <<NotDefined(name)>>
               \* the body of a for loop sees the name its init declares
               /\ Statement = ForDeclaring(name, Block(<<Use(name)>>)) =>
                      NewErrors = <<>>
               \* a second declaration in the global scope
               /\ DeclaresHere(Statement, name) /\ DeclaredGlobally(name) =>
                      /\ Len(NewErrors) = 1
                      /\ IsAlreadyDeclared(NewErrors[1], name)
                      /\ analyzer'.environment = analyzer.environment
               \* a first declaration in the global scope: nothing is
               \* reported but a name the initializer refers to in vain
               /\ DeclaresHere(Statement, name) /\ ~DeclaredGlobally(name)
                      /\ Statement.type = "VariableDeclaration" =>
                      /\ NewErrors =
                             IF Statement.initializer # NULL
                                 /\ Statement.initializer.type = "Identifier"
                                 /\ ~DeclaredGlobally(Statement.initializer.name)
                             THEN <<NotDefined(Statement.initializer.name)>>
                             ELSE <<>>
                      /\ name \in DOMAIN analyzer'.environment.symbols
               \* a second declaration in the scope of one block
               /\ Statement = Block(<<Declare("let", name), Declare("const", name)>>) =>
                      /\ Len(NewErrors) = 1
                      /\ IsAlreadyDeclared(NewErrors[1], name)
               \* a declaration in a block, of a name declared outside or not
               /\ Statement \in {Block(<<Declare("let", name)>>),
                                 Block(<<Declare("let", name), Assign(name)>>)} =>
                      NewErrors = <<>>

\* C7: scoping.  A name declared inside a block or in a for loop's init
\* clause is gone when that statement has been analyzed, and a later
\* reference to it is reported as 'not defined'; a name of the enclosing scope
\* is visible in nested scopes; a second declaration of a name in one scope is
\* reported as 'already declared'; a declaration in a nested block of a name of
\* the enclosing scope is reported as nothing.
C7_Scoping == []C7_ScopeEnded /\ [][C7_Step]_vars

\* { let x = 1; } x;  has been analyzed and 'x is not defined' reported.
C7_Witness ==
    /\ analyzePc = "returned"
    /\ program.body = <<Block(<<Declare("let", <<"x">>)>>), Use(<<"x">>)>>
    /\ analysisResult.errors = <<NotDefined(<<"x">>)>>

\* Bodies whose one violation is an assignment to a const binding, in the
\* scope of the assignment or an enclosing one.
ConstAssignmentBodies ==
    UNION {{<<Declare("const", n), Assign(n)>>,
            <<Declare("const", n), Block(<<Assign(n)>>)>>,
            <<Declare("const", n), Block(<<Block(<<Assign(n)>>)>>)>>,
            <<Block(<<Declare("const", n), Assign(n)>>)>>,
            <<Declare("let", n), Block(<<Declare("const", n), Assign(n)>>)>>}
           : n \in AnalyzedNames}

\* Bodies with an assignment to a name bound nowhere in the chain.
UndefinedAssignmentBodies ==
    UNION {{<<Assign(n)>>, <<Block(<<Assign(n)>>)>>,
            <<Block(<<Block(<<Assign(n)>>)>>)>>,
            <<Block(<<Declare("const", n)>>), Assign(n)>>}
           : n \in AnalyzedNames}

\* Bodies with an assignment to a let binding.
LetAssignmentBodies ==
    UNION {{<<Declare("let", n), Assign(n)>>,
            <<Declare("let", n), Block(<<Assign(n)>>)>>,
            <<Declare("let", n), Block(<<Block(<<Assign(n)>>)>>)>>,
            <<Block(<<Declare("let", n), Assign(n)>>)>>,
            <<Declare("const", n), Block(<<Declare("let", n), Assign(n)>>)>>}
           : n \in AnalyzedNames}

C8_Reports ==
    AnalyzeEnded /\ analyzeCalls = 1 =>
        /\ program.body \in ConstAssignmentBodies =>
               /\ analysisResult.success = FALSE
               /\ Len(analysisResult.errors) = 1
               /\ \E n \in AnalyzedNames :
                      IsConstAssignment(analysisResult.errors[1], n)
        /\ program.body \in UndefinedAssignmentBodies =>
               /\ analysisResult.success = FALSE
               /\ \E n \in AnalyzedNames : Reported(UndefinedAssignment(n))
        /\ program.body \in LetAssignmentBodies =>
               analysisResult = [success |-> TRUE, errors |-> <<>>]

C8_Step ==
    Analyzing =>
        \A name \in AnalyzedNames :
            \* the name resolves to the global binding, or to none
            /\ Statement \in {Assign(name), Block(<<Assign(name)>>),
                              Block(<<Block(<<Assign(name)>>)>>)} =>
                   IF ~DeclaredGlobally(name)
                   THEN NewErrors = <<UndefinedAssignment(name)>>
                   ELSE IF analyzer.environment.symbols[name].kind = "const"
                   THEN /\ analyzePc' = "caught"
                        /\ Len(NewErrors) = 1
                        /\ IsConstAssignment(NewErrors[1], name)
                   ELSE analyzer.environment.symbols[name].type
                            \in {"number", "undefined"} => NewErrors = <<>>
            \* the name resolves to the binding of the block
            /\ Statement = Block(<<Declare("let", name), Assign(name)>>) =>
                   NewErrors = <<>>
            /\ Statement = Block(<<Declare("const", name), Assign(name)>>) =>
                   /\ analyzePc' = "caught"
                   /\ Len(NewErrors) = 1
                   /\ IsConstAssignment(NewErrors[1], name)

\* C8: an assignment to a name that resolves, innermost binding first, to a
\* const binding of the current or an enclosing scope is reported as one
\* 'Cannot assign to const' error, and when it is the only violation the report
\* has success = false and exactly that error; an assignment to a name bound
\* nowhere is reported as 'undefined variable', one to a let binding as nothing.
C8_ConstAssignment == []C8_Reports /\ [][C8_Step]_vars

\* const x = 1; { { x = 2; } }  has been analyzed.
C8_Witness ==
    /\ AnalyzeEnded
    /\ program.body = <<Declare("const", <<"x">>),
                        Block(<<Block(<<Assign(<<"x">>)>>)>>)>>
    /\ Len(analysisResult.errors) = 1
    /\ IsConstAssignment(analysisResult.errors[1], <<"x">>)

\* C9: analyze reports every violation of the program in one pass: when it
\* has ended, each `break` and `continue` at the top level of the body, where
\* no loop is, has been reported, also one that comes after an assignment to a
\* const variable.
C9_EveryViolationReported ==
    AnalyzeEnded =>
        \A j \in 1..Len(program.body) :
            /\ program.body[j].type = "BreakStatement" =>
                   Reported(<<"'break' statement can only be used inside a loop">>)
            /\ program.body[j].type = "ContinueStatement" =>
                   Reported(<<"'continue' statement can only be used inside a loop">>)

\* C10: analyze returns a report {success, errors} for every Program, also
\* when a statement raised, and success is true exactly when errors is empty.
C10_AlwaysReports ==
    /\ analyzePc \in {"never", "idle", "loop", "returned", "caught"}
    /\ analyzePc = "loop" => stmtIndex <= Len(program.body)
    /\ AnalyzeEnded =>
           /\ DOMAIN analysisResult = {"success", "errors"}
           /\ analysisResult.success \in BOOLEAN
           /\ analysisResult.success <=> analysisResult.errors = <<>>
           /\ analysisResult.errors = analyzer.errors
    /\ analyzePc = "caught" => ~analysisResult.success

\* A body with a node of an unknown kind has been analyzed.
C10_Witness ==
    /\ analyzePc = "caught"
    /\ \E j \in 1..Len(program.body) : program.body[j] = UnknownStatement
    /\ analysisResult.errors[Len(analysisResult.errors)]
           = <<"Unknown statement type: ", "DebuggerStatement">>

(***************************************************************************)
(* Properties of the control flow validation.                              *)
(***************************************************************************)
BreakOutsideLoop == <<"'break' statement can only be used inside a loop">>

ContinueOutsideLoop == <<"'continue' statement can only be used inside a loop">>

IsLoopMessage(message) == message \in {BreakOutsideLoop, ContinueOutsideLoop}

RECURSIVE OutsideLoop(_, _), OutsideLoopAll(_, _, _)

\* The messages due for the break and continue statements of stmt, in source
\* order, when stmt itself is nested in `loops` loop bodies.
OutsideLoop(stmt, loops) ==
    CASE stmt.type = "BreakStatement" ->
             IF loops = 0 THEN <<BreakOutsideLoop>> ELSE <<>>
      [] stmt.type = "ContinueStatement" ->
             IF loops = 0 THEN <<ContinueOutsideLoop>> ELSE <<>>
      [] stmt.type \in {"WhileStatement", "ForStatement"} ->
             OutsideLoop(stmt.body, loops + 1)
      [] stmt.type = "BlockStatement" -> OutsideLoopAll(stmt.body, 1, loops)
      [] stmt.type = "FunctionDeclaration" ->
             OutsideLoopAll(stmt.body.body, 1, loops)
      [] stmt.type = "IfStatement" ->
             OutsideLoop(stmt.consequent, loops)
                 \o (IF stmt.alternate = NULL THEN <<>>
                     ELSE OutsideLoop(stmt.alternate, loops))
      [] OTHER -> <<>>

OutsideLoopAll(stmts, i, loops) ==
    IF i > Len(stmts) THEN <<>>
    ELSE OutsideLoop(stmts[i], loops) \o OutsideLoopAll(stmts, i + 1, loops)

\* Every loop puts the depth back to what it found: between two top-level
\* statements it is 0, so that no decrement takes it below 0.
C11_DepthRestored == analyzer.loopDepth = 0

\* What a top-level statement that analyze got through adds to the errors
\* about break and continue is what its statements outside every loop are due.
C11_Step ==
    (Analyzing /\ analyzePc' = "loop") =>
        SelectSeq(NewErrors, IsLoopMessage) = OutsideLoop(Statement, 0)

\* C11: a break or continue statement is reported, with a message naming it
\* and saying it can only be used inside a loop, exactly when it is not in the
\* body of a while or for loop; blocks and if branches in between make no
\* difference, and the loop depth is never negative.
C11_LoopDepth == []C11_DepthRestored /\ [][C11_Step]_vars

\* A program with break and continue both inside and outside of loops, with
\* blocks between the loop and the statement, was analysed to its end with
\* the one error for the continue outside.
C11_Witness ==
    /\ analyzePc = "returned"
    /\ program.body = <<WhileTrue(Block(<<ForEver(createBreakStatement),
                                          createContinueStatement>>)),
                        createContinueStatement>>
    /\ analysisResult.errors = <<ContinueOutsideLoop>>

(***************************************************************************)
(* Properties of the analysis of function declarations.                    *)
(***************************************************************************)
AlreadyDeclared(name) == <<"declared", name>>

Undefined(name) == <<"undefined", name>>

\* What a message says, about which name.
Complaint(message) ==
    IF Len(message) >= 3 /\ IsAlreadyDeclared(message, message[2])
    THEN AlreadyDeclared(message[2])
    ELSE IF Len(message) = 3 /\ message = NotDefined(message[2])
    THEN Undefined(message[2])
    ELSE <<"other", message>>

\* The complaints about declarations and references among the errors.
Complaints(errors) ==
    SelectSeq([i \in 1..Len(errors) |-> Complaint(errors[i])],
              LAMBDA c : c[1] # "other")

Range(seq) == {seq[i] : i \in 1..Len(seq)}

\* The complaints due for the parameters: one for each that repeats an
\* earlier one.
ParameterComplaints(parameters) ==
    LET Repeated(i) == \E j \in 1..(i - 1) : parameters[j].name = parameters[i].name
        Pick(i) == IF Repeated(i) THEN <<AlreadyDeclared(parameters[i].name)>> ELSE <<>>
    IN  Flatten([i \in 1..Len(parameters) |-> Pick(i)])

RECURSIVE BodyComplaints(_, _, _, _)

\* The complaints due for the statements i.. of a function body, when `here`
\* are the names its one scope holds and `outside` those of the scopes
\* around the function.
BodyComplaints(body, i, here, outside) ==
    IF i > Len(body) THEN <<>>
    ELSE LET stmt == body[i] IN
         CASE stmt.type = "VariableDeclaration" ->
                  (IF stmt.identifier.name \in here
                   THEN <<AlreadyDeclared(stmt.identifier.name)>> ELSE <<>>)
                      \o BodyComplaints(body, i + 1,
                             here \cup {stmt.identifier.name}, outside)
           [] stmt.type = "ExpressionStatement"
                  /\ stmt.expression.type = "Identifier" ->
                  (IF stmt.expression.name \in here \cup outside
                   THEN <<>> ELSE <<Undefined(stmt.expression.name)>>)
                      \o BodyComplaints(body, i + 1, here, outside)
           [] stmt.type = "ExpressionStatement"
                  /\ stmt.expression.type = "CallExpression" ->
                  (IF stmt.expression.callee.name \in here \cup outside
                   THEN <<>> ELSE <<Undefined(stmt.expression.callee.name)>>)
                      \o (IF stmt.expression.arguments[1].name \in here \cup outside
                          THEN <<>>
                          ELSE <<Undefined(stmt.expression.arguments[1].name)>>)
                      \o BodyComplaints(body, i + 1, here, outside)
           [] OTHER -> BodyComplaints(body, i + 1, here, outside)

\* The complaints due for a function declaration met in the global scope.
DeclarationComplaints(stmt) ==
    (IF DeclaredGlobally(stmt.name.name)
     THEN <<AlreadyDeclared(stmt.name.name)>> ELSE <<>>)
        \o ParameterComplaints(stmt.parameters)
        \o BodyComplaints(stmt.body.body, 1,
               {stmt.parameters[i].name : i \in 1..Len(stmt.parameters)},
               DOMAIN analyzer.environment.symbols \cup {stmt.name.name})

\* One top-level function declaration: its name is bound where it stands,
\* its parameters and locals are bound nowhere afterwards, and the errors
\* are those of one scope holding parameters and body.
C19_Step ==
    (Analyzing /\ Statement \in FunctionDeclarations) =>
        /\ analyzePc' = "loop"
        /\ Complaints(NewErrors) = DeclarationComplaints(Statement)
        /\ DOMAIN analyzer'.environment.symbols
               = DOMAIN analyzer.environment.symbols \cup {Statement.name.name}
        /\ analyzer'.environment.parent = NULL
        /\ lookup(analyzer'.environment, Statement.name.name).type
               = IF DeclaredGlobally(Statement.name.name)
                 THEN lookup(analyzer.environment, Statement.name.name).type
                 ELSE "function"

\* After the program, a parameter or local of the function that was used
\* after the declaration was reported as not defined.
C19_NotVisibleAfter ==
    (analyzePc = "returned" /\ Len(program.body) = 2
        /\ program.body[1] \in FunctionDeclarations
        /\ program.body[2] \in {Use(<<"a">>), Use(<<"b">>)}) =>
            Reported(NotDefined(program.body[2].expression.name))

\* C19: a function declaration binds its name in the scope it stands in (a
\* name that scope already holds is 'already declared', a call of the
\* function in its own body resolves), then parameters and body statements
\* share one fresh child scope: a repeated parameter and a body-level let
\* named like a parameter are 'already declared', and neither parameters nor
\* locals are visible after the declaration.
C19_FunctionScope == []C19_NotVisibleAfter /\ [][C19_Step]_vars

\* function f(a, b) { let b = 1; b; }  a;  was analysed: the local b is
\* 'already declared', a is not defined after the declaration.
C19_Witness ==
    /\ analyzePc = "returned"
    /\ program.body = <<FunctionF(<<<<"a">>, <<"b">>>>,
                                  <<Declare("let", <<"b">>), Use(<<"b">>)>>),
                        Use(<<"a">>)>>
    /\ Complaints(analysisResult.errors)
           = <<AlreadyDeclared(<<"b">>), Undefined(<<"a">>)>>

(***************************************************************************)
(* Properties of the binary type check.                                    *)
(***************************************************************************)
\* The type of an operand of TypedOperands after TypedPrelude.
OperandType(expr) ==
    CASE expr.type = "LiteralExpression" -> expr.value.t
      [] expr.type = "Identifier" -> "undefined"
      [] expr.type = "CallExpression" -> "any"

Arithmetic == {"MINUS", "STAR", "SLASH", "PERCENT"}

Ordering == {"LESS", "LESS_EQUAL", "GREATER", "GREATER_EQUAL"}

IsTypeError(message) ==
    /\ Len(message) >= 1
    /\ message[1] \in {"Type error: Cannot perform ", "Type error: Cannot compare "}

\* The cases in which a type error is due.
TypeErrorDue(left, operator, right) ==
    LET bothNumber == left = "number" /\ right = "number"
        bothString == left = "string" /\ right = "string"
        someAny == left = "any" \/ right = "any"
    IN  CASE operator \in Arithmetic -> ~bothNumber /\ ~someAny
          [] operator = "PLUS" ->
                 left # "string" /\ right # "string" /\ ~bothNumber /\ ~someAny
          [] operator \in Ordering -> ~bothNumber /\ ~bothString /\ ~someAny
          [] OTHER -> FALSE

\* The type the expression is given.
ResultTypeDue(left, operator, right) ==
    IF operator = "PLUS" /\ (left = "string" \/ right = "string") THEN "string"
    ELSE IF operator \in Arithmetic \cup {"PLUS"}
              /\ left = "number" /\ right = "number" THEN "number"
    ELSE IF operator \in Ordering \cup {"EQUAL_EQUAL", "BANG_EQUAL"}
              /\ ~TypeErrorDue(left, operator, right) THEN "boolean"
    ELSE "any"

C20_Step ==
    (Analyzing /\ program.body \in TypedBodies /\ stmtIndex = 2) =>
        LET expr == Statement.initializer
            left == OperandType(expr.left)
            right == OperandType(expr.right)
        IN  /\ analyzePc' = "loop"
            /\ IF TypeErrorDue(left, expr.operator, right)
               THEN Len(NewErrors) = 1 /\ IsTypeError(NewErrors[1])
               ELSE NewErrors = <<>>
            /\ lookup(analyzer'.environment, <<"r">>).type
                   = ResultTypeDue(left, expr.operator, right)

\* C20: for operand types among number, string, boolean, null, undefined and
\* any, the binary type check reports a 'Type error' exactly for - * / % on
\* operands that are not both number with neither any, for + when neither is
\* string, they are not both number and neither is any, for < <= > >= when
\* they are not both number, not both string and neither is any, and never
\* for == and !=; the type is string for + with a string, number for number
\* arithmetic, boolean for comparisons and equality, any otherwise.
C20_BinaryTypeCheck == [][C20_Step]_vars

\* let r = null < "s" was analysed and gave one type error.
C20_Witness ==
    /\ analyzePc = "returned"
    /\ program.body \in TypedBodies
    /\ program.body[3].initializer.operator = "LESS"
    /\ OperandType(program.body[3].initializer.left) = "null"
    /\ OperandType(program.body[3].initializer.right) = "string"
    /\ Len(analysisResult.errors) = 1
    /\ IsTypeError(analysisResult.errors[1])

(***************************************************************************)
(* Properties of the parsing of calls.                                     *)
(***************************************************************************)
\* The token list starts with an identifier directly followed by `(`.
StartsWithCall ==
    /\ Len(parser.tokens) >= 3
    /\ parser.tokens[1].type = "IDENTIFIER"
    /\ parser.tokens[2].type = "LPAREN"

\* C18: where an identifier token is directly followed by `(`, the parser
\* produces a CallExpression whose callee is that identifier, with the
\* arguments in source order (none for `( )`), or fails with a syntax error
\* that contains "Expected ')'".
C18_CallParsed ==
    (ExpressionParsed /\ StartsWithCall) =>
        IF parseResult.ok
        THEN /\ parseResult.node.type = "CallExpression"
             /\ parseResult.node.callee = createIdentifier(parser.tokens[1].value)
             /\ (parser.tokens[3].type = "RPAREN" =>
                    parseResult.node.arguments = <<>>)
        ELSE parseResult.error[8] \in
                 {"Expected ')' after expression", "Expected ')' after arguments"}

(***************************************************************************)
(* Properties of the interpreter.                                          *)
(***************************************************************************)
Executing == executePc = "loop" /\ execIndex < Len(ast.body)

ExecutedStatement == ast.body[execIndex + 1]

\* The number the global scope binds name to.
GlobalNumber(i, name) == i.heap[1].variables[<<name>>].value.whole

\* The counters after the counting loop of a case, by the rule that a
\* continue goes on with the update and the next test, and a break ends the
\* loop there and then.
CountsDue(case) ==
    LET n == case.limit - 1
        none == [b |-> n, u |-> n, c |-> n + 1, r |-> n]
    IN  CASE case.kind = "none" -> none
          [] case.kind = "continue" -> [b |-> n, u |-> n, c |-> n + 1, r |-> 0]
          [] case.kind = "break" ->
                 IF n = 0 THEN none ELSE [b |-> 1, u |-> 0, c |-> 1, r |-> 0]
          [] case.kind = "continueAt" ->
                 [b |-> n, u |-> n, c |-> n + 1,
                  r |-> IF case.k <= n THEN n - 1 ELSE n]
          [] case.kind = "breakAt" ->
                 IF case.k <= n
                 THEN [b |-> case.k, u |-> case.k - 1, c |-> case.k,
                       r |-> case.k - 1]
                 ELSE none

Counts(i) ==
    [b |-> GlobalNumber(i, "b"), u |-> GlobalNumber(i, "u"),
     c |-> GlobalNumber(i, "c"), r |-> GlobalNumber(i, "r")]

C12_Step ==
    \A case \in ForCases :
        (Executing /\ ast.body \in ForBodies
            /\ ExecutedStatement = ForCounting(case.limit, case.kind, case.k)) =>
                /\ executePc' = "loop"
                /\ Counts(interpreter') = CountsDue(case)
                /\ GlobalNumber(interpreter', "s") = GlobalNumber(interpreter', "u")

\* C12: in a for loop, a continue raised by the body is followed by one
\* evaluation of the update clause and only then by the next test of the
\* condition; a break ends the loop at once: the rest of the body, the
\* update clause and the condition are not evaluated again.
C12_ForSignals == [][C12_Step]_vars

\* The counting loop to 3 with a continue in its first iteration has run:
\* two entries of the body, two updates, three tests, the end of the body
\* reached once.
C12_Witness ==
    /\ executePc = "returned"
    /\ ast.body = Counters \o <<ForCounting(3, "continueAt", 1)>>
    /\ Counts(interpreter) = [b |-> 2, u |-> 2, c |-> 3, r |-> 1]

RECURSIVE ScopesDue(_, _, _), ScopesDueAll(_, _, _, _), ScopesDueLoop(_, _, _, _)

NoScopes(stop) == [parents |-> <<>>, stop |-> stop]

\* The scopes due for a statement of ScopeStatements that is met when
\* `current` is the current scope and `next` the reference the next new
\* scope gets: the parents of the scopes to be made, in the order of their
\* making, and how the statement ends ("none" for its normal end, "break",
\* "continue", or "raise" for a return or an error).  A block and a for
\* statement make one scope each, a child of `current`, and what is inside
\* runs in that scope.
ScopesDue(stmt, current, next) ==
    CASE stmt.type = "BlockStatement" ->
             [ScopesDueAll(stmt.body, 1, next, next + 1)
                 EXCEPT !.parents = <<current>> \o @]
      [] stmt.type = "ForStatement" ->
             [ScopesDueLoop(stmt.body, IF stmt.condition = NULL THEN 1 ELSE 2,
                            next, next + 1)
                 EXCEPT !.parents = <<current>> \o @]
      [] stmt.type = "WhileStatement" -> ScopesDueLoop(stmt.body, 1, current, next)
      [] stmt.type = "IfStatement" ->
             IF stmt.condition = BooleanLiteral
             THEN ScopesDue(stmt.consequent, current, next)
             ELSE ScopesDue(stmt.alternate, current, next)
      [] stmt.type = "BreakStatement" -> NoScopes("break")
      [] stmt.type = "ContinueStatement" -> NoScopes("continue")
      [] stmt.type = "ReturnStatement" -> NoScopes("raise")
      [] stmt.type = "ExpressionStatement" ->
             IF stmt.expression.name \in {<<"y">>, <<"z">>}
             THEN NoScopes("raise") ELSE NoScopes("none")
      [] OTHER -> NoScopes("none")

\* The statements k.. of a body, up to the first that does not end normally.
ScopesDueAll(stmts, k, current, next) ==
    IF k > Len(stmts) THEN NoScopes("none")
    ELSE LET first == ScopesDue(stmts[k], current, next) IN
         IF first.stop # "none" THEN first
         ELSE [ScopesDueAll(stmts, k + 1, current, next + Len(first.parents))
                  EXCEPT !.parents = first.parents \o @]

\* A loop body run up to `times` times: a break ends the loop, a continue
\* the iteration only, a return or an error goes on up.
ScopesDueLoop(body, times, current, next) ==
    IF times = 0 THEN NoScopes("none")
    ELSE LET first == ScopesDue(body, current, next) IN
         IF first.stop = "break" THEN [first EXCEPT !.stop = "none"]
         ELSE IF first.stop = "raise" THEN first
         ELSE [ScopesDueLoop(body, times - 1, current, next + Len(first.parents))
                  EXCEPT !.parents = first.parents \o @]

\* The parents of the scopes made since the heap had `before` scopes.
ParentsSince(i, before) ==
    [k \in 1..(Len(i.heap) - before) |-> i.heap[before + k].parent]

\* Between the statements of the program, and when execute has returned or
\* raised, the current scope is the global scope.
C13_GlobalIsCurrent ==
    /\ interpreter.environment = 1
    /\ runtimeIsGlobal(interpreter.heap, interpreter.environment)

\* One top-level statement: the scopes it makes are those due, one for each
\* block and for statement entered, each a child of the scope then current;
\* it ends as due, and the scopes that were there keep their parents.
C13_Step ==
    (Executing /\ ast.body \in ScopeBodies) =>
        LET due == ScopesDue(ExecutedStatement, interpreter.environment,
                             Len(interpreter.heap) + 1)
        IN  /\ ParentsSince(interpreter', Len(interpreter.heap)) = due.parents
            /\ (executePc' = "loop") <=> (due.stop = "none")
            /\ interpreter'.environment = interpreter.environment
            /\ \A e \in 1..Len(interpreter.heap) :
                   interpreter'.heap[e].parent = interpreter.heap[e].parent

\* C13: every block statement and every for loop makes exactly one child
\* scope of the scope then current, and on every way out (normal end, a
\* break, continue or return passing through, a runtime error) the current
\* scope is the one from before; so after execute has returned or raised
\* the current scope is the global scope.
C13_Scopes == []C13_GlobalIsCurrent /\ [][C13_Step]_vars

\* for (;;) { { z; } } has raised out of three scopes, each the child of
\* the one before, and the current scope is the global one.
C13_Witness ==
    /\ executePc = "raised"
    /\ ast.body = <<ForEver(Block(<<Block(<<Do(Var("z"))>>)>>))>>
    /\ ParentsSince(interpreter, 1) = <<1, 2, 3>>
    /\ interpreter.environment = 1

\* The numbers the scope e binds its names to.
Bindings(i, e) ==
    [name \in DOMAIN i.heap[e].variables |-> i.heap[e].variables[name].value.whole]

Unbound == [name \in {} |-> 0]

\* A message that says 'undefined variable' about name.
IsUndefinedVariable(exception, name) ==
    /\ exception.name = "Error"
    /\ exception.message
           = <<"Runtime Error: Cannot assign to undefined variable '", name, "'">>

\* The nest of a case is executed: x = 7 lands in the innermost scope that
\* holds x and nowhere else; with no such scope the assignment fails and no
\* scope holds x.
C14_Step ==
    \A case \in AssignCases :
        (Executing /\ ast.body = AssignBody(case)
            /\ ExecutedStatement = Nest(case.middle, case.inner)) =>
            LET middle == Len(interpreter.heap) + 1
                inner == Len(interpreter.heap) + 2
            IN  /\ Len(interpreter'.heap) = inner
                /\ Bindings(interpreter', inner)
                       = IF case.inner THEN <<"x">> :> 7 ELSE Unbound
                /\ Bindings(interpreter', middle)
                       = IF case.middle
                         THEN <<"x">> :> (IF case.inner THEN 3 ELSE 7)
                         ELSE Unbound
                /\ Bindings(interpreter', 1)
                       = IF case.global
                         THEN (<<"y">> :> 1)
                                  @@ (<<"x">> :> (IF case.inner \/ case.middle
                                                 THEN 1 ELSE 7))
                         ELSE <<"y">> :> 1
                /\ IF case.global \/ case.middle \/ case.inner
                   THEN executePc' = "loop"
                   ELSE /\ executePc' = "raised"
                        /\ IsUndefinedVariable(executeResult'.raised, <<"x">>)

\* After the blocks have ended, x read in the global scope is what the
\* assignment made it when the blocks did not declare an x of their own.
C14_VisibleAfter ==
    \A case \in AssignCases :
        (executePc = "returned" /\ ast.body = AssignBody(case)) =>
            /\ case.global
            /\ executeResult.returned
                   = createNumberValue(JsInteger(IF case.inner \/ case.middle
                                                 THEN 1 ELSE 7))

\* C14: an assignment n = e changes the binding of n in the innermost scope
\* of the current chain that holds n, leaves every other binding as it was
\* and adds none, so that the value is still there after an inner block has
\* ended; when no scope of the chain holds n it fails with an error about an
\* 'undefined variable' and binds n nowhere.
C14_Assignment == []C14_VisibleAfter /\ [][C14_Step]_vars

\* let y = 1; let x = 1; { { x = 7; } } x;  has returned 7.
C14_Witness ==
    /\ executePc = "returned"
    /\ ast.body = AssignBody([global |-> TRUE, middle |-> FALSE, inner |-> FALSE])
    /\ executeResult.returned = createNumberValue(JsInteger(7))
    /\ Bindings(interpreter, 1) = (<<"y">> :> 1) @@ (<<"x">> :> 7)

\* The runtime value of a literal.
ValueDue(literal) ==
    IF literal.value.t = "null" THEN [type |-> "null", value |-> NULL]
    ELSE [type |-> literal.value.t, value |-> literal.value.v]

NotDefinedRaise == [raise |-> "not defined"]

RECURSIVE LastDue(_, _, _), LastDueAll(_, _, _, _)

\* The value of the last expression statement executed once a statement of
\* LastStatements is through, when it was `last` before and x is bound to
\* `x` in the global scope (UNDEFINED when it is not bound).
LastDue(stmt, last, x) ==
    CASE stmt.type = "ExpressionStatement" ->
             IF stmt.expression.type = "LiteralExpression"
             THEN ValueDue(stmt.expression)
             ELSE IF x = UNDEFINED THEN NotDefinedRaise ELSE x
      [] stmt.type = "BlockStatement" -> LastDueAll(stmt.body, 1, last, x)
      [] stmt.type = "IfStatement" ->
             IF stmt.condition = BooleanLiteral
             THEN LastDue(stmt.consequent, last, x)
             ELSE IF stmt.alternate # NULL
             THEN LastDue(stmt.alternate, last, x)
             ELSE last
      [] stmt.type = "ForStatement" ->
             LastDue(stmt.body, LastDue(stmt.body, last, x), x)
      [] OTHER -> last

LastDueAll(stmts, k, last, x) ==
    IF k > Len(stmts) THEN last
    ELSE LastDueAll(stmts, k + 1, LastDue(stmts[k], last, x), x)

\* One top-level statement: lastValue becomes the value of the last
\* expression statement executed in it, and stays when there was none; a
\* read of an unbound x is the one thing that fails; `let x;` binds x to
\* the undefined value.
C15_Step ==
    (Executing /\ ast.body \in LastBodies) =>
        LET due == LastDue(ExecutedStatement, interpreter.lastValue,
                           runtimeLookup(interpreter.heap, 1, <<"x">>))
        IN  /\ IF due = NotDefinedRaise
               THEN /\ executePc' = "raised"
                    /\ executeResult'.raised.message
                           = <<"Runtime Error: Variable '", <<"x">>,
                               "' is not defined">>
                    /\ interpreter'.lastValue = interpreter.lastValue
               ELSE /\ executePc' = "loop"
                    /\ execIndex' = execIndex + 1
                    /\ interpreter'.lastValue = due
            /\ ExecutedStatement = Let("x", NULL) =>
                   /\ <<"x">> \in DOMAIN interpreter'.heap[1].variables
                   /\ interpreter'.heap[1].variables[<<"x">>]
                          = [type |-> "undefined", value |-> UNDEFINED]

\* execute starts from the undefined value and returns lastValue.
C15_StartAndReturn ==
    /\ (executePc = "loop" /\ execIndex = 0) =>
           interpreter.lastValue = [type |-> "undefined", value |-> UNDEFINED]
    /\ executePc = "returned" =>
           /\ execIndex = Len(ast.body)
           /\ executeResult.returned = interpreter.lastValue

\* C15: execute runs the top-level statements in order and returns the
\* value of the last expression statement that was executed, at the top
\* level or inside a block, branch or loop body, and the undefined value
\* when none was; a declaration without initializer binds the name to the
\* undefined value, which a later read returns instead of failing.
C15_LastValue == []C15_StartAndReturn /\ [][C15_Step]_vars

\* let x;  x;  has returned the undefined value.
C15_Witness ==
    /\ executePc = "returned"
    /\ ast.body = <<Let("x", NULL), Do(Var("x"))>>
    /\ executeResult.returned = [type |-> "undefined", value |-> UNDEFINED]

\* The value of an operand of LogicalBodies.
OperandDue(expr) ==
    IF expr.type = "Identifier" THEN [type |-> "undefined", value |-> UNDEFINED]
    ELSE ValueDue(expr)

\* left operator (a = right) is executed: a is assigned exactly when the
\* truthiness of left asks for the right operand, and the value of the
\* expression is the value of the operand evaluated last, as it is.
C16_Step ==
    (Executing /\ ast.body \in LogicalBodies /\ execIndex = 2) =>
        LET expr == ExecutedStatement.expression
            right == expr.right.expression.right
            asked == IF expr.operator = "AND" THEN expr.left \in TruthyOperands
                     ELSE expr.left \in FalsyOperands
        IN  /\ executePc' = "loop"
            /\ interpreter'.heap[1].variables[<<"a">>]
                   = IF asked THEN ValueDue(right) ELSE ValueDue(Number1(0))
            /\ interpreter'.lastValue
                   = IF asked THEN ValueDue(right) ELSE OperandDue(expr.left)

\* C16: l && r evaluates r only when l is truthy, l || r only when l is
\* falsy; a right operand that is skipped has no effect, and the result is
\* the value of the last operand evaluated, not a boolean made from it.
C16_ShortCircuit == [][C16_Step]_vars

\* let a = 0; let u; "" && (a = 9);  has returned the empty string and a
\* is still 0.
C16_Witness ==
    /\ executePc = "returned"
    /\ ast.body = LogicalBody(StringLiteral(<<>>), "AND", Number1(9))
    /\ executeResult.returned = [type |-> "string", value |-> <<>>]
    /\ GlobalNumber(interpreter, "a") = 0

\* function f(a) { return a; }  f(1);
DeclareAndCall ==
    <<createFunctionDeclaration(Var("f"), <<Var("a")>>,
          Block(<<createReturnStatement(Var("a"))>>)),
      Do(createCallExpression(Var("f"), <<Number1(1)>>))>>

ExecuteEnded == executePc \in {"returned", "raised"}

\* C17: a program that declares a function and then calls it with as many
\* arguments as parameters runs the body with the parameters bound to the
\* arguments, and the call has the value of the return statement executed:
\* execute returns that value.
C17_CallReturns ==
    (ExecuteEnded /\ ast.body = DeclareAndCall) =>
        /\ executePc = "returned"
        /\ executeResult.returned = createNumberValue(JsInteger(1))

(***************************************************************************)
(* Signals through nested statements.                                      *)
(***************************************************************************)
\* The scopes that bind name.
Holding(i, name) ==
    {e \in 1..Len(i.heap) : <<name>> \in DOMAIN i.heap[e].variables}

\* The counters after the nested loops of a case: the outer body is run
\* limit times to its end; the inner body is entered once for each outer
\* iteration when it breaks and twice when it continues, and nothing after
\* the signal is executed.
NestedDue(case) ==
    [o |-> case.limit, p |-> case.limit, a |-> 0,
     n |-> IF case.signal = "break" THEN case.limit ELSE 2 * case.limit]

NestedCounts(i) ==
    [o |-> GlobalNumber(i, "o"), p |-> GlobalNumber(i, "p"),
     a |-> GlobalNumber(i, "a"), n |-> GlobalNumber(i, "n")]

\* The scopes of the outer bodies are children of the global scope, and the
\* scope of every inner body is made in the scope the inner loop runs in:
\* the outer body's for a while loop, the for statement's own, a child of
\* the outer body's, for a for loop.
NestedScopes(case, i) ==
    /\ Cardinality(Holding(i, "m")) = case.limit
    /\ \A e \in Holding(i, "m") : i.heap[e].parent = 1
    /\ Cardinality(Holding(i, "t")) = NestedDue(case).n
    /\ \A e \in Holding(i, "t") :
           IF case.loop = "while" THEN i.heap[e].parent \in Holding(i, "m")
           ELSE /\ i.heap[e].parent \in Holding(i, "i")
                /\ i.heap[i.heap[e].parent].parent \in Holding(i, "m")

C21_Step ==
    \A case \in NestedCases :
        (Executing /\ ast.body \in NestedBodies
            /\ ExecutedStatement = NestedLoops(case)) =>
                /\ executePc' = "loop"
                /\ NestedCounts(interpreter') = NestedDue(case)
                /\ NestedScopes(case, interpreter')
                /\ interpreter'.environment = interpreter.environment

\* C21: a break or continue raised inside blocks and if statements of a loop
\* body unwinds through them, the statements after it in those blocks and in
\* the body are not executed, and the innermost enclosing while or for loop
\* alone intercepts it: the inner loop ends (break) or goes on with its next
\* iteration (continue), the outer loop goes on after the inner one, and the
\* scope current after the interception is the one the inner loop runs in.
C21_SignalsUnwind == [][C21_Step]_vars

\* Two outer iterations with an inner for loop that continues inside a block
\* of a block of an if have run: four entries of the inner body, nothing
\* after the continue, the outer body reached its end twice.
C21_Witness ==
    /\ executePc = "returned"
    /\ ast.body = NestedCounters \o
           <<NestedLoops([limit |-> 2, loop |-> "for", signal |-> "continue",
                          wrap |-> "ifBlock"])>>
    /\ NestedCounts(interpreter) = [o |-> 2, p |-> 2, a |-> 0, n |-> 4]

(***************************************************************************)
(* The analyzer's scope and loop depth around what raises.                 *)
(***************************************************************************)
\* Between the statements of a program and after analyze has ended, the
\* current scope is the global scope and the loop depth is 0.
C22_GlobalAndNoLoop ==
    /\ isGlobal(analyzer.environment)
    /\ analyzer.loopDepth = 0

\* A top-level statement that raises inside a block, a for statement, a loop
\* body or a function body ends analyze in the catch block and leaves the
\* global scope as it was, but for the name of the function declared.
C22_Step ==
    (Analyzing /\ program.body \in AbortBodies /\ stmtIndex = 1) =>
        /\ analyzePc' = "caught"
        /\ analyzer'.loopDepth = analyzer.loopDepth
        /\ analyzer'.environment =
               IF Statement.type = "FunctionDeclaration"
               THEN define(analyzer.environment, <<"f">>,
                           SymbolInfo("let", "function", TRUE)).env
               ELSE analyzer.environment

\* C22: the current scope and the loop depth of the analyzer are put back
\* around every block, for statement, function body and loop body on every
\* way out, a raise inside included: whatever analyze comes to (success,
\* collected errors, an abort by a const assignment or an unknown node),
\* afterwards the current scope is the global scope and the loop depth is 0.
C22_Restored == []C22_GlobalAndNoLoop /\ [][C22_Step]_vars

\* analyze was aborted by an assignment to a const inside a while loop in a
\* function in a for loop in a while loop.
C22_Witness ==
    /\ analyzePc = "caught"
    /\ program.body = <<Declare("const", <<"k">>), Wrap("deep", Assign(<<"k">>))>>
    /\ IsConstAssignment(analysisResult.errors[Len(analysisResult.errors)], <<"k">>)
    /\ isGlobal(analyzer.environment)
    /\ analyzer.loopDepth = 0

(***************************************************************************)
(* Calls of execute on one interpreter.                                    *)
(***************************************************************************)
LaterCall == executeCalls > 1

\* C23: every call of execute runs its program against a fresh scope chain:
\* when a later call on the same interpreter starts, the global scope binds
\* nothing, and a later program that only reads x ends with the error that
\* x is not defined.
C23_FreshScopeChain ==
    /\ (LaterCall /\ executePc = "loop" /\ execIndex = 0) =>
           /\ interpreter.environment = 1
           /\ interpreter.heap[1].variables = NoVariables
    /\ (LaterCall /\ ExecuteEnded /\ ast.body = <<Do(Var("x"))>>) =>
           /\ executePc = "raised"
           /\ executeResult.raised.message =
                  <<"Runtime Error: Variable '", <<"x">>, "' is not defined">>

(***************************************************************************)
(* Progress of the loops of the scanner and of the parser.                 *)
(***************************************************************************)
\* The cursors stay inside: the scanner's at most at the end of the source,
\* the parser's at most on the EOF token, all tokens before it being others.
C24_CursorsInside ==
    /\ scanner.current <= Len(scanner.source)
    /\ parser.tokens # <<>> =>
           /\ parser.current < Len(parser.tokens)
           /\ \A k \in 1..parser.current : parser.tokens[k].type # "EOF"

\* A statement parsed from any token of the list that is not the EOF token,
\* as the loops of parse and of parseBlockStatement do: it raises, or the
\* cursor has moved on; either way the cursor is not past the EOF token.
C24_StatementProgress ==
    \A c \in 0..(Len(parser.tokens) - 1) :
        LET p == [parser EXCEPT !.current = c] IN
        ~parserIsAtEnd(p) =>
            /\ parseStatement(p).p.current < Len(parser.tokens)
            /\ parseStatement(p).ok => parseStatement(p).p.current > c

\* An iteration of the loop of scanTokens moves the scanner on or raises;
\* an iteration of the loop of parse moves the parser on or raises.
C24_Step ==
    /\ (scanPc = "loop" /\ ~isAtEnd(scanner)) =>
           \/ scanner'.current > scanner.current
           \/ scanPc' = "error"
    /\ (parsePc \in {"ready", "loop"} /\ ~parserIsAtEnd(parser)
            /\ parsePc' \in {"loop", "error"}) =>
           \/ parser'.current > parser.current
           \/ parsePc' = "error"

\* C24: scanning and parsing end on finite input: every iteration of the
\* loop of scanTokens consumes at least one character or raises, and for a
\* token list that ends in EOF every iteration of the loop of parse and of
\* the loop of a block statement consumes at least one token or raises a
\* syntax error, the cursor of the parser never moving past the EOF token.
C24_Progress ==
    /\ []C24_CursorsInside
    /\ []C24_StatementProgress
    /\ [][C24_Step]_vars

\* `{ let x = 5 ;` was parsed up to the EOF token: the loop of the block took
\* the declaration and stopped there, and the missing `}` was raised with the
\* cursor on the EOF token.
C24_Witness ==
    /\ parsePc = "error"
    /\ parser.tokens = Layout(<<W("LBRACE"), W("LET"), Id("x"), W("EQUAL"),
                                Num("5"), W("SEMICOLON")>>)
    /\ parser.current = Len(parser.tokens) - 1
    /\ parseResult.error[8] = "Expected '}' after block"

(***************************************************************************)
(* Calls of analyze on one analyzer.                                       *)
(***************************************************************************)
LaterAnalysis == Analyzing /\ analyzeCalls > 1

\* A program that only declares x and was analysed with success has left x
\* declared in the global scope.
C25_DeclaredAfterSuccess ==
    (analyzePc = "returned" /\ analysisResult.success
        /\ program.body = <<Declare("let", <<"x">>)>>) => DeclaredGlobally(<<"x">>)

\* A call of analyze empties the errors and leaves the scope as it is; in a
\* later call a declaration of x is reported as already declared, and a use
\* of x is not reported, exactly when an earlier call left x declared.
C25_Step ==
    /\ (analyzePc \in {"idle", "returned", "caught"} /\ analyzePc' = "loop") =>
           /\ analyzer'.environment = analyzer.environment
           /\ analyzer'.errors = <<>>
    /\ (LaterAnalysis /\ Statement = Declare("let", <<"x">>)) =>
           IF DeclaredGlobally(<<"x">>)
           THEN /\ Len(NewErrors) = 1
                /\ IsAlreadyDeclared(NewErrors[1], <<"x">>)
           ELSE NewErrors = <<>>
    /\ (LaterAnalysis /\ Statement = Use(<<"x">>)) =>
           NewErrors = IF DeclaredGlobally(<<"x">>) THEN <<>>
                       ELSE <<NotDefined(<<"x">>)>>

\* C25: an analyzer keeps its global scope between the calls of analyze,
\* which empties the list of errors only: a name declared at top level by
\* one call is still declared in the next, so that analysing a second time
\* a program that declares a top-level name reports it as already declared
\* although the first call succeeded.
C25_ScopeKept == []C25_DeclaredAfterSuccess /\ [][C25_Step]_vars

\* `let x = 1;` was analysed a second time on an analyzer whose global scope
\* had x, and the report is the one error that x is already declared.
C25_Witness ==
    /\ analyzePc = "returned"
    /\ analyzeCalls = 2
    /\ program.body = <<Declare("let", <<"x">>)>>
    /\ ~analysisResult.success
    /\ Len(analysisResult.errors) = 1
    /\ IsAlreadyDeclared(analysisResult.errors[1], <<"x">>)

(***************************************************************************)
(* Constness and redeclaration at run time.                                *)
(***************************************************************************)
\* The literal that a statement of a body of ConstBodies gives k: the
\* initializer of a declaration, the right side of an assignment, also of
\* one in a block; NULL for the statement that reads k.
GivenToK(stmt) ==
    CASE stmt.type = "VariableDeclaration" -> stmt.initializer
      [] stmt.type = "BlockStatement" -> stmt.body[1].expression.right
      [] stmt.expression.type = "AssignmentExpression" -> stmt.expression.right
      [] OTHER -> NULL

\* Every statement of a body of ConstBodies is executed without a raise;
\* the global scope binds k and nothing else, the value of k is the one the
\* statement gave it, whatever the kind of its declaration, and where the
\* statement reads k the value read is the one k had.
C26_Step ==
    (Executing /\ ast.body \in ConstBodies) =>
        /\ executePc' = "loop"
        /\ DOMAIN interpreter'.heap[1].variables = {<<"k">>}
        /\ IF GivenToK(ExecutedStatement) # NULL
           THEN interpreter'.heap[1].variables[<<"k">>]
                    = ValueDue(GivenToK(ExecutedStatement))
           ELSE /\ interpreter'.heap[1].variables = interpreter.heap[1].variables
                /\ interpreter'.lastValue = interpreter.heap[1].variables[<<"k">>]

\* C26: the interpreter does not enforce constness: a name declared with
\* const is bound like any other, an assignment to it is executed without
\* error and changes its value, and a second declaration of a name in the
\* same scope raises nothing and replaces the value.
C26_NoConstness == [][C26_Step]_vars

\* const k = 1;  k = "s";  k;  has returned the string.
C26_Witness ==
    /\ executePc = "returned"
    /\ ast.body = <<DeclareK("const", Number1(1)),
                    Do(Set("k", StringLiteral(<<"s">>))), Do(Var("k"))>>
    /\ executeResult.returned = createStringValue(<<"s">>)

(***************************************************************************)
(* The recorded type of a symbol.                                          *)
(***************************************************************************)
\* The type the declaration of v records: that of its initializer, and
\* undefined without one.
DeclaredType(initializer) ==
    IF initializer = NULL THEN "undefined" ELSE OperandType(initializer)

\* An assignment of a value of type `source` to a symbol of type `target`
\* is reported unless the types are the same, one of them is any, or the
\* symbol's is undefined.
AssignErrorDue(target, source) ==
    target # source /\ target # "any" /\ source # "any" /\ target # "undefined"

\* In a body of RetypeBodies: the declaration records the type of the
\* initializer; the assignment is reported as due and leaves the symbol as
\* it was; the subtraction is checked with the type recorded at the
\* declaration, whatever was assigned.
C27_Step ==
    (Analyzing /\ program.body \in RetypeBodies /\ stmtIndex >= 2) =>
        LET recorded == DeclaredType(program.body[3].initializer)
            assigned == OperandType(program.body[4].expression.right)
        IN  /\ analyzePc' = "loop"
            /\ analyzer'.environment.symbols[<<"v">>].type = recorded
            /\ stmtIndex = 2 => NewErrors = <<>>
            /\ stmtIndex = 3 =>
                   /\ analyzer'.environment = analyzer.environment
                   /\ NewErrors =
                          IF AssignErrorDue(recorded, assigned)
                          THEN << <<"Type error: Cannot assign ", assigned,
                                    " to variable '", <<"v">>, "' of type ",
                                    recorded>> >>
                          ELSE <<>>
            /\ stmtIndex = 4 =>
                   IF TypeErrorDue(recorded, "MINUS", "number")
                   THEN Len(NewErrors) = 1 /\ IsTypeError(NewErrors[1])
                   ELSE NewErrors = <<>>

\* C27: the type the analyzer records for a symbol is fixed at its
\* declaration and no assignment changes it: an assignment of a value of
\* another type is reported as a 'Type error' unless one of the two types
\* is any or the recorded type is undefined, and a variable declared
\* without initializer keeps the type undefined after a number was assigned
\* to it, so that `let x; x = 5; x - 1;` reports a type error for the
\* subtraction.
C27_TypeFixed == [][C27_Step]_vars

\* let v;  v = 1;  v - 1;  was analysed: nothing for the assignment, and the
\* one error is the type error of the subtraction on undefined and number.
C27_Witness ==
    /\ analyzePc = "returned"
    /\ program.body = RetypeBody(NULL, NumberLiteral("1"))
    /\ analysisResult.errors =
           << <<"Type error: Cannot perform ", getOperatorSymbol("MINUS"),
                " operation on ", "undefined", " and ", "number">> >>

(***************************************************************************)
(* Signals that nothing intercepts.                                        *)
(***************************************************************************)
\* The exception a signal statement raises when x is bound to the number 1.
EscapeDue(signal) ==
    CASE signal.type = "BreakStatement" -> BreakException
      [] signal.type = "ContinueStatement" -> ContinueException
      [] signal.type = "ReturnStatement" ->
             ReturnException(IF signal.argument = NULL THEN createUndefinedValue
                             ELSE createNumberValue(JsInteger(1)))

\* The statement with the signal ends execute with the exception of the
\* signal, in the global scope.
C28_Step ==
    \A case \in EscapeCases :
        (Executing /\ ast.body = EscapeBody(case) /\ execIndex = 1) =>
            /\ executePc' = "raised"
            /\ executeResult' = [raised |-> EscapeDue(case.signal)]
            /\ interpreter'.environment = 1

\* execute on a body of EscapeBodies ends at the statement with the signal
\* and by a raise: the assignments after the signal are not executed, no
\* value is returned, and the current scope is the global scope.
C28_Escaped ==
    (ExecuteEnded /\ ast.body \in EscapeBodies) =>
        /\ executePc = "raised"
        /\ execIndex = 1
        /\ executeResult.raised.name
               \in {"BreakException", "ContinueException", "ReturnException"}
        /\ GlobalNumber(interpreter, "x") = 1
        /\ interpreter.environment = 1
        /\ runtimeIsGlobal(interpreter.heap, interpreter.environment)

\* C28: a break, continue or return executed with no loop (break, continue)
\* or call (return) around it to intercept it does not let execute come to
\* its normal end: the control flow exception leaves execute, the
\* statements after it are not executed, and the current scope is
\* nevertheless the global scope again.
C28_SignalEscapes == []C28_Escaped /\ [][C28_Step]_vars

\* let x = 1;  for (...) { { return x; } }  x = 9;  has ended with the
\* return exception that carries 1, x still 1, in the global scope.
C28_Witness ==
    /\ executePc = "raised"
    /\ ast.body = EscapeBody([kind |-> "for",
                              signal |-> createReturnStatement(Var("x"))])
    /\ executeResult.raised = ReturnException(createNumberValue(JsInteger(1)))
    /\ GlobalNumber(interpreter, "x") = 1
    /\ interpreter.environment = 1

(***************************************************************************)
(* The loop depth inside a function body.                                  *)
(***************************************************************************)
\* A function whose body has a break or continue and no loop: declared in
\* the body of a loop it is analysed without any error, declared outside of
\* every loop it gets the one error of the signal outside a loop.
C29_Step ==
    \A case \in LoopFunctionCases :
        (Analyzing /\ program.body = LoopFunctionBody(case)) =>
            /\ analyzePc' = "loop"
            /\ NewErrors =
                   IF case.loop # "none" THEN <<>>
                   ELSE IF case.signal.type = "BreakStatement"
                   THEN <<BreakOutsideLoop>>
                   ELSE <<ContinueOutsideLoop>>

\* A program that is one loop with such a function in its body is reported
\* as a success.
C29_Accepted ==
    (AnalyzeEnded /\ program.body \in LoopFunctionBodies
        /\ program.body[1].type # "FunctionDeclaration") =>
            analysisResult = [success |-> TRUE, errors |-> <<>>]

\* C29: the loop depth of the analyzer is not reset when a function body is
\* entered: a break or continue in the body of a function that is declared
\* inside the body of a loop, with no loop inside the function, is accepted
\* by analyze without any error.
C29_LoopDepthKept == []C29_Accepted /\ [][C29_Step]_vars

\* for (;;) { { function f() { { continue; } } } }  was analysed with success.
C29_Witness ==
    /\ analyzePc = "returned"
    /\ program.body = LoopFunctionBody([loop |-> "for",
                                        signal |-> createContinueStatement,
                                        wrap |-> "block"])
    /\ analysisResult = [success |-> TRUE, errors |-> <<>>]

(***************************************************************************)
(* The initializer and the name it initializes.                            *)
(***************************************************************************)
\* The analyzer on `let x = x;`: at top level the x on the right is the x
\* of the global scope, and then the declaration is a second one in that
\* scope, or it is not defined; in a block it is the x of the global scope,
\* which the x of the block then shadows, or it is not defined.
C30_AnalyzeStep ==
    (Analyzing /\ program.body \in SelfAnalyzeBodies /\ analyzeCalls = 1) =>
        /\ Statement = SelfDeclaration =>
               /\ IF DeclaredGlobally(<<"x">>)
                  THEN /\ Len(NewErrors) = 1
                       /\ IsAlreadyDeclared(NewErrors[1], <<"x">>)
                       /\ analyzer'.environment = analyzer.environment
                  ELSE /\ NewErrors = <<NotDefined(<<"x">>)>>
                       /\ analyzer'.environment.symbols[<<"x">>].type = "any"
        /\ Statement.type = "BlockStatement" =>
               /\ analyzePc' = "loop"
               /\ NewErrors = IF DeclaredGlobally(<<"x">>) THEN <<>>
                              ELSE <<NotDefined(<<"x">>)>>
               /\ analyzer'.environment = analyzer.environment
        /\ (Statement = Assign(<<"x">>) /\ stmtIndex = 2) =>
               /\ analyzePc' = "caught"
               /\ IsConstAssignment(NewErrors[1], <<"x">>)

\* The interpreter on `let x = x;`: with no x bound it raises 'not defined'
\* and no scope binds x afterwards; with x bound to 1 in the global scope,
\* at top level x is bound to 1 again, and in a block the block's scope
\* gets an x of its own, 1 at first and 2 after `x = x + 1`, while the
\* global x stays 1.
C30_ExecuteStep ==
    (Executing /\ ast.body \in SelfExecuteBodies /\ executeCalls = 1) =>
        /\ (execIndex = 0 /\ Len(ast.body) = 1) =>
               /\ executePc' = "raised"
               /\ executeResult'.raised =
                      Error(<<"Runtime Error: Variable '", <<"x">>,
                              "' is not defined">>)
               /\ Holding(interpreter', "x") = {}
               /\ interpreter'.environment = 1
        /\ (execIndex = 1 /\ ExecutedStatement = SelfDeclaration) =>
               /\ executePc' = "loop"
               /\ Holding(interpreter', "x") = {1}
               /\ GlobalNumber(interpreter', "x") = 1
        /\ (execIndex = 1 /\ ExecutedStatement.type = "BlockStatement") =>
               /\ executePc' = "loop"
               /\ Holding(interpreter', "x") = {1, 2}
               /\ GlobalNumber(interpreter', "x") = 1
               /\ interpreter'.heap[2].variables[<<"x">>]
                      = createNumberValue(JsInteger(2))
               /\ interpreter'.lastValue = createNumberValue(JsInteger(2))
        /\ execIndex = 2 =>
               /\ executePc' = "loop"
               /\ interpreter'.lastValue = createNumberValue(JsInteger(1))

\* C30: in the analyzer and in the interpreter the initializer of a
\* declaration is processed before the name is bound in the current scope:
\* in `let x = x;` the x on the right is the x of an enclosing scope when
\* there is one, which the new x then shadows, and otherwise it is reported
\* as not defined (analyzer) or raises the 'not defined' runtime error and
\* x stays unbound (interpreter).
C30_InitializerFirst == [][C30_AnalyzeStep /\ C30_ExecuteStep]_vars

\* let x = 1; { let x = x; x = x + 1; x; } x;  has returned 1, the scope of
\* the block holding an x of 2.
C30_Witness ==
    /\ executePc = "returned"
    /\ executeCalls = 1
    /\ ast.body \in SelfExecuteBodies
    /\ Len(ast.body) = 3
    /\ Holding(interpreter, "x") = {1, 2}
    /\ interpreter.heap[2].variables[<<"x">>] = createNumberValue(JsInteger(2))
    /\ executeResult.returned = createNumberValue(JsInteger(1))

====
